---------------------------- MODULE Spec2Model ----------------------------
(***************************************************************************)
(* A model of the tree-walking Lox interpreter (thoszhang/lox):           *)
(* scanner -> parser -> resolver -> evaluator, and the driver run() /     *)
(* runFile() that sequences them.                                         *)
(*                                                                         *)
(* Conventions.  Source text is a sequence of one-character strings.      *)
(* Indices into the source and into the token list are 0-based as in the  *)
(* code; TLA+ sequences are 1-based, so element i of the code is element  *)
(* i + 1 of the sequence.  A runtime value is a record [t, n, s]: tag,    *)
(* numeric payload (number, boolean as 0/1, heap reference) and string    *)
(* payload.  Lox numbers are modelled by the integers.  JavaScript        *)
(* objects (environments, functions, classes, instances) live in heaps    *)
(* (sequences) and are referred to by their index, which is their         *)
(* identity.  An expression node that the resolver may use as a key of    *)
(* Interpreter.locals carries its identity in the field id.               *)
(***************************************************************************)
EXTENDS Integers, Sequences, FiniteSets, TLC

VARIABLES
  source,           \* run(source): the program text
  pc,               \* position of the driver inside run() / runFile()
  scanner,          \* Scanner fields: start, current, line
  tokens,           \* Scanner.tokens, then Parser.tokens
  parser,           \* Parser fields: current (and the observed loop progress)
  statements,       \* the Stmt[] returned by Parser.parse
  resolver,         \* Resolver fields: scopes, currentFunction, currentClass
  interp,           \* the Interpreter and the object heaps it reaches
  hadError,         \* run.ts: let hadError
  hadRuntimeError,  \* run.ts: let hadRuntimeError
  stderr,           \* what console.error was called with, in order
  stdout,           \* what console.log was called with, in order
  exitCode,         \* process exit status; -1 while the process runs
  stdin             \* runPrompt: the lines of process.stdin and how many
                    \* of them the "line" handler was called with

vars == <<source, pc, scanner, tokens, parser, statements, resolver, interp,
          hadError, hadRuntimeError, stderr, stdout, exitCode, stdin>>

\* A const binding of the source: Let(e, LAMBDA x : body) is body with x
\* standing for the value of e.
Let(e, body(_)) == body(e)

\* process.stdin of a run that reads no line from it
NoInput == [lines |-> <<>>, read |-> 0]

(***************************************************************************)
(* Values                                                                  *)
(***************************************************************************)
Undefined == [t |-> "undefined", n |-> 0, s |-> ""]
Nil == [t |-> "nil", n |-> 0, s |-> ""]
Bool(b) == [t |-> "bool", n |-> IF b THEN 1 ELSE 0, s |-> ""]
Num(k) == [t |-> "num", n |-> k, s |-> ""]
Str(x) == [t |-> "str", n |-> 0, s |-> x]
Ref(tag, i) == [t |-> tag, n |-> i, s |-> ""]

(***************************************************************************)
(* Error reporting (run.ts)                                                *)
(***************************************************************************)
\* error(line, message) -> report(line, "", message)
errorLine(line, message) ==
  [kind |-> "compile", line |-> line, where |-> "", message |-> message]

\* error(token, message) -> report(token.line, " at end" | " at '<lexeme>'", message)
errorToken(token, message) ==
  [kind |-> "compile", line |-> token.line,
   where |-> IF token.type = "eof" THEN " at end"
             ELSE " at '" \o token.lexeme \o "'",
   message |-> message]

(***************************************************************************)
(* Scanner (lexer.ts)                                                      *)
(***************************************************************************)
NUL == "\\0"
Digits == {"0", "1", "2", "3", "4", "5", "6", "7", "8", "9"}
Letters == {"a", "b", "c", "d", "e", "f", "g", "h", "i", "j", "k", "l", "m",
            "n", "o", "p", "q", "r", "s", "t", "u", "v", "w", "x", "y", "z",
            "A", "B", "C", "D", "E", "F", "G", "H", "I", "J", "K", "L", "M",
            "N", "O", "P", "Q", "R", "S", "T", "U", "V", "W", "X", "Y", "Z"}
keywords == {"and", "class", "else", "false", "for", "fun", "if", "nil", "or",
             "print", "return", "super", "this", "true", "var", "while"}

isKeyword(text) == text \in keywords
isDigit(c) == c \in Digits
isAlpha(c) == c \in Letters \/ c = "_"
isAlphaNumeric(c) == isAlpha(c) \/ isDigit(c)

DigitValue(c) ==
  CASE c = "0" -> 0 [] c = "1" -> 1 [] c = "2" -> 2 [] c = "3" -> 3
    [] c = "4" -> 4 [] c = "5" -> 5 [] c = "6" -> 6 [] c = "7" -> 7
    [] c = "8" -> 8 [] OTHER -> 9

charAt(src, i) == IF i >= 0 /\ i < Len(src) THEN src[i + 1] ELSE ""

RECURSIVE substring(_, _, _)
substring(src, from, to) ==
  IF from >= to \/ from >= Len(src) THEN ""
  ELSE src[from + 1] \o substring(src, from + 1, to)

\* Number.parseFloat on a lexeme the scanner admits: digits, optionally
\* followed by "." and digits.  The integer part is the value; the digits
\* after the point are kept in the field s.
RECURSIVE parseFloat(_, _, _, _)
parseFloat(src, from, to, acc) ==
  IF from >= to THEN Num(acc)
  ELSE IF src[from + 1] = "."
       THEN [t |-> "num", n |-> acc, s |-> substring(src, from + 1, to)]
       ELSE parseFloat(src, from + 1, to, acc * 10 + DigitValue(src[from + 1]))

ScannerInit == [start |-> 0, current |-> 0, line |-> 1]

scanIsAtEnd(src, sc) == sc.current >= Len(src)
scanPeek(src, sc) == IF scanIsAtEnd(src, sc) THEN NUL ELSE charAt(src, sc.current)
scanPeekNext(src, sc) ==
  IF sc.current + 1 >= Len(src) THEN NUL ELSE charAt(src, sc.current + 1)
scanAdvance(sc) == [sc EXCEPT !.current = @ + 1]
scanMatch(src, sc, expected) ==
  ~scanIsAtEnd(src, sc) /\ charAt(src, sc.current) = expected

\* The result of one scanToken: the scanner fields, the tokens it pushed and
\* the error lines it reported.
ScanResult(sc, toks, errs) == [sc |-> sc, toks |-> toks, errs |-> errs]

addToken(src, sc, type, literal) ==
  ScanResult(sc,
             <<[type |-> type, lexeme |-> substring(src, sc.start, sc.current),
                literal |-> literal, line |-> sc.line]>>,
             <<>>)

\* this.addToken(this.match("=") ? two : one)
addOneOrTwo(src, sc, one, two) ==
  IF scanMatch(src, sc, "=") THEN addToken(src, scanAdvance(sc), two, Undefined)
  ELSE addToken(src, sc, one, Undefined)

RECURSIVE skipComment(_, _)
skipComment(src, sc) ==
  IF scanPeek(src, sc) # "\n" /\ ~scanIsAtEnd(src, sc)
  THEN skipComment(src, scanAdvance(sc))
  ELSE sc

RECURSIVE scanDigits(_, _)
scanDigits(src, sc) ==
  IF isDigit(scanPeek(src, sc)) THEN scanDigits(src, scanAdvance(sc)) ELSE sc

scanNumber(src, sc) ==
  Let(scanDigits(src, sc), LAMBDA a :
  Let(IF scanPeek(src, a) = "." /\ isDigit(scanPeekNext(src, a))
      THEN scanDigits(src, scanAdvance(a))
      ELSE a, LAMBDA b :
  addToken(src, b, "number", parseFloat(src, b.start, b.current, 0))))

RECURSIVE scanAlphaNumerics(_, _)
scanAlphaNumerics(src, sc) ==
  IF isAlphaNumeric(scanPeek(src, sc))
  THEN scanAlphaNumerics(src, scanAdvance(sc))
  ELSE sc

scanIdentifier(src, sc) ==
  Let(scanAlphaNumerics(src, sc), LAMBDA a :
  Let(substring(src, a.start, a.current), LAMBDA text :
  addToken(src, a, IF isKeyword(text) THEN text ELSE "identifier", Undefined)))

RECURSIVE scanStringBody(_, _)
scanStringBody(src, sc) ==
  IF scanPeek(src, sc) # "\"" /\ ~scanIsAtEnd(src, sc)
  THEN scanStringBody(src,
         scanAdvance(IF scanPeek(src, sc) = "\n"
                     THEN [sc EXCEPT !.line = @ + 1] ELSE sc))
  ELSE sc

scanString(src, sc) ==
  Let(scanStringBody(src, sc), LAMBDA a :
  IF scanIsAtEnd(src, a)
  THEN ScanResult(a, <<>>, <<errorLine(a.line, "Unterminated string.")>>)
  ELSE Let(scanAdvance(a), LAMBDA b :
       addToken(src, b, "string",
                Str(substring(src, b.start + 1, b.current - 1)))))

SingleCharTokens ==
  [c \in {"(", ")", "{", "}", ",", ".", "-", "+", ";", "*"} |->
     CASE c = "(" -> "left_paren" [] c = ")" -> "right_paren"
       [] c = "{" -> "left_brace" [] c = "}" -> "right_brace"
       [] c = "," -> "comma" [] c = "." -> "dot" [] c = "-" -> "minus"
       [] c = "+" -> "plus" [] c = ";" -> "semicolon" [] OTHER -> "star"]

scanToken(src, sc0) ==
  Let(charAt(src, sc0.current), LAMBDA c :
  Let(scanAdvance(sc0), LAMBDA sc :
  CASE c \in DOMAIN SingleCharTokens ->
         addToken(src, sc, SingleCharTokens[c], Undefined)
    [] c = "!" -> addOneOrTwo(src, sc, "bang", "bang_equal")
    [] c = "=" -> addOneOrTwo(src, sc, "equal", "equal_equal")
    [] c = "<" -> addOneOrTwo(src, sc, "less", "less_equal")
    [] c = ">" -> addOneOrTwo(src, sc, "greater", "greater_equal")
    [] c = "/" ->
         IF scanMatch(src, sc, "/")
         THEN ScanResult(skipComment(src, scanAdvance(sc)), <<>>, <<>>)
         ELSE addToken(src, sc, "slash", Undefined)
    [] c \in {" ", "\r", "\t"} -> ScanResult(sc, <<>>, <<>>)
    [] c = "\n" -> ScanResult([sc EXCEPT !.line = @ + 1], <<>>, <<>>)
    [] c = "\"" -> scanString(src, sc)
    [] OTHER ->
         IF isDigit(c) THEN scanNumber(src, sc)
         ELSE IF isAlpha(c) THEN scanIdentifier(src, sc)
         ELSE ScanResult(sc, <<>>,
                         <<errorLine(sc.line, "Unexpected character.")>>)))

EofToken(line) ==
  [type |-> "eof", lexeme |-> "", literal |-> Undefined, line |-> line]


(***************************************************************************)
(* Parser (parser.ts)                                                      *)
(*                                                                         *)
(* A parser state p holds Parser.current, the errors reported so far in    *)
(* the current pass, the flag stuck, raised when a pass of a loop          *)
(* returns without having consumed a token (the loop would then repeat     *)
(* the same pass forever), and the flag misread, raised when previous()    *)
(* is called with current = 0 and reads tokens[-1].  A parse function      *)
(* returns [p, node, thrown]: thrown stands for a ParseError raised to     *)
(* the caller.                                                             *)
(***************************************************************************)
MaxArgs == 255

Null == [type |-> "null"]
UndefinedToken ==
  [type |-> "undefined", lexeme |-> "", literal |-> Undefined, line |-> 0]

ParserInit == [current |-> 0, errs |-> <<>>, stuck |-> FALSE, misread |-> FALSE]
R(p, node, thrown) == [p |-> p, node |-> node, thrown |-> thrown]

peek(toks, p) == toks[p.current + 1]
previous(toks, p) == IF p.current >= 1 THEN toks[p.current] ELSE UndefinedToken
isAtEnd(toks, p) == peek(toks, p).type = "eof"
check(toks, p, type) == ~isAtEnd(toks, p) /\ peek(toks, p).type = type
\* The parser state after a call of previous()
previousCalled(p) == IF p.current >= 1 THEN p ELSE [p EXCEPT !.misread = TRUE]
\* if (!this.isAtEnd()) this.current++; return this.previous()
advance(toks, p) ==
  previousCalled(IF ~isAtEnd(toks, p) THEN [p EXCEPT !.current = @ + 1] ELSE p)
\* match(...types) is matches(...) followed by advance(...)
matches(toks, p, types) == ~isAtEnd(toks, p) /\ peek(toks, p).type \in types

\* Parser.error: reports, and returns the ParseError for the caller to throw
parserError(p, token, message) ==
  [p EXCEPT !.errs = Append(@, errorToken(token, message))]

consume(toks, p, type, message) ==
  IF check(toks, p, type) THEN R(advance(toks, p), peek(toks, p), FALSE)
  ELSE R(parserError(p, peek(toks, p), message), Null, TRUE)

SyncKeywords == {"class", "fun", "var", "for", "if", "while", "print", "return"}

RECURSIVE synchronizeLoop(_, _), synchronizeLoopTestingPeek(_, _)
\* The loop of synchronize() with the semicolon looked for in peek(), not in
\* previous(): it returns in front of the semicolon
synchronizeLoopTestingPeek(toks, p) ==
  IF isAtEnd(toks, p) THEN p
  ELSE IF peek(toks, p).type = "semicolon" THEN p
  ELSE IF peek(toks, p).type \in SyncKeywords THEN p
  ELSE synchronizeLoopTestingPeek(toks, advance(toks, p))

synchronizeLoop(toks, p) ==
  IF isAtEnd(toks, p) THEN p
  ELSE IF previous(toks, p).type = "semicolon" THEN previousCalled(p)
  ELSE IF peek(toks, p).type \in SyncKeywords THEN previousCalled(p)
  ELSE synchronizeLoop(toks, advance(toks, previousCalled(p)))

\* synchronize() started at its loop, the failing token not skipped
synchronizeWithoutAdvance(toks, p) == synchronizeLoop(toks, p)

synchronize(toks, p) == synchronizeLoop(toks, advance(toks, p))

RECURSIVE declaration(_, _), classDeclaration(_, _), classMethods(_, _, _),
          classMethodsNext(_, _, _, _), funcDeclaration(_, _, _),
          funcParams(_, _, _), parameters(_, _), varDeclaration(_, _),
          varInitializer(_, _), statement(_, _), returnStatement(_, _),
          block(_, _), blockLoop(_, _, _), blockNext(_, _, _, _),
          forStatement(_, _), forInitializer(_, _), ifStatement(_, _),
          elseBranch(_, _), whileStatement(_, _), printStatement(_, _),
          expressionStatement(_, _), andExpression(_, _),
          optExpression(_, _, _), andStatement(_, _), andBlock(_, _),
          expression(_, _), assignment(_, _), assignmentTail(_, _),
          operand(_, _, _), levelsUpTo(_, _, _, _), leftAssoc(_, _, _, _),
          leftAssocNext(_, _, _, _, _), unary(_, _), call(_, _),
          callLoop(_, _), finishCall(_, _, _), finishArguments(_, _),
          callArgs(_, _, _), callArgsNext(_, _, _), primary(_, _)

\* A parse function is written as the chain of its steps, innermost first.
\* The node field of the result of a step is the list of the parts parsed
\* so far (tokens and subtrees), which Node turns into the Stmt or Expr; a
\* step after a ParseError passes the error on.
begin(p) == R(p, <<>>, FALSE)

part(parts, x) == IF x.thrown THEN x ELSE R(x.p, Append(parts, x.node), FALSE)

\* consume(type, message), the token dropped
expect(toks, r, type, message) ==
  IF r.thrown THEN r
  ELSE IF check(toks, r.p, type) THEN R(advance(toks, r.p), r.node, FALSE)
  ELSE R(parserError(r.p, peek(toks, r.p), message), Null, TRUE)

\* consume(type, message), the token kept as a part
consumed(toks, r, type, message) ==
  IF r.thrown THEN r ELSE part(r.node, consume(toks, r.p, type, message))

variableNode(name) ==
  IF name.thrown THEN name
  ELSE R(name.p, [type |-> "variable", name |-> name.node,
                  id |-> name.p.current - 1], FALSE)

\* The statement and expression nodes, from their parts in source order.
Make(kind, parts) ==
  CASE kind = "class" ->
         [type |-> "class", name |-> parts[1], superclass |-> parts[2],
          methods |-> parts[3]]
    [] kind = "function" ->
         [type |-> "function", name |-> parts[1], params |-> parts[2],
          body |-> parts[3]]
    [] kind = "var" ->
         [type |-> "var", name |-> parts[1], initializer |-> parts[2]]
    [] kind = "block" -> [type |-> "block", statements |-> parts[1]]
    [] kind = "return" ->
         [type |-> "return", keyword |-> parts[1], value |-> parts[3],
          id |-> parts[2]]
    [] kind = "if" ->
         [type |-> "if", condition |-> parts[1], thenBranch |-> parts[2],
          elseBranch |-> parts[3]]
    [] kind = "while" ->
         [type |-> "while", condition |-> parts[1], body |-> parts[2]]
    [] kind = "print" -> [type |-> "print", expression |-> parts[1]]
    [] kind = "expression" -> [type |-> "expression", expression |-> parts[1]]
    [] kind = "call" ->
         [type |-> "call", callee |-> parts[1], paren |-> parts[3],
          arguments |-> parts[2]]
    [] kind = "super" ->
         [type |-> "super", keyword |-> parts[1], method |-> parts[3],
          id |-> parts[2]]
    [] kind = "grouping" -> [type |-> "grouping", expression |-> parts[1]]
    [] kind = "for" ->
         \* parts: initializer, condition, increment, body
         LET body == IF parts[3].type # "null"
                     THEN [type |-> "block",
                           statements |-> <<parts[4],
                                            [type |-> "expression",
                                             expression |-> parts[3]]>>]
                     ELSE parts[4]
             condition == IF parts[2].type = "null"
                          THEN [type |-> "literal", value |-> Bool(TRUE)]
                          ELSE parts[2]
             loop == [type |-> "while", condition |-> condition, body |-> body]
         IN IF parts[1].type # "null"
            THEN [type |-> "block", statements |-> <<parts[1], loop>>]
            ELSE loop

Node(kind, r) == IF r.thrown THEN r ELSE R(r.p, Make(kind, r.node), FALSE)

\* the catch of declaration(): synchronize() and return null
catchParseError(toks, r) ==
  IF r.thrown /\ ~r.p.stuck THEN R(synchronize(toks, r.p), Null, FALSE) ELSE r

declaration(toks, p) ==
  catchParseError(toks,
    CASE matches(toks, p, {"class"}) -> classDeclaration(toks, advance(toks, p))
      [] matches(toks, p, {"fun"}) ->
           funcDeclaration(toks, advance(toks, p), "function")
      [] matches(toks, p, {"var"}) -> varDeclaration(toks, advance(toks, p))
      [] OTHER -> statement(toks, p))

\* if (match("less")) { consume(identifier); superclass = variable }
classSuperclass(toks, r) ==
  IF r.thrown THEN r
  ELSE IF matches(toks, r.p, {"less"})
  THEN part(r.node, variableNode(consume(toks, advance(toks, r.p), "identifier",
                                     "Expect superclass name.")))
  ELSE R(r.p, Append(r.node, Null), FALSE)

classDeclaration(toks, p) ==
  Node("class",
    expect(toks,
      classMethods(toks,
        expect(toks,
          classSuperclass(toks,
            consumed(toks, begin(p), "identifier", "Expect class name.")),
          "left_brace", "Expect '{' before class body."),
        <<>>),
      "right_brace", "Expect '}' after class body."))

\* while (!check("right_brace") && !isAtEnd()) methods.push(funcDeclaration("method"))
classMethods(toks, r, methods) ==
  IF r.thrown THEN r
  ELSE IF check(toks, r.p, "right_brace") \/ isAtEnd(toks, r.p)
  THEN R(r.p, Append(r.node, methods), FALSE)
  ELSE classMethodsNext(toks, r.node, methods,
                        funcDeclaration(toks, r.p, "method"))

classMethodsNext(toks, parts, methods, m) ==
  IF m.thrown THEN m
  ELSE classMethods(toks, R(m.p, parts, FALSE), Append(methods, m.node))

funcDeclaration(toks, p, kind) ==
  Node("function",
    andBlock(toks,
      expect(toks,
        expect(toks,
          parameters(toks,
            expect(toks,
              consumed(toks, begin(p), "identifier", "Expect " \o kind \o " name."),
              "left_paren", "Expect '(' after " \o kind \o " name.")),
          "right_paren", "Expect ')' after parameters."),
        "left_brace", "Expect '{' before " \o kind \o " body.")))

\* if (!check("right_paren")) { do ... while (match("comma")) }
parameters(toks, r) ==
  IF r.thrown THEN r
  ELSE IF ~check(toks, r.p, "right_paren")
  THEN part(r.node, funcParams(toks, r.p, <<>>))
  ELSE R(r.p, Append(r.node, <<>>), FALSE)

\* do { ... params.push(consume(identifier)) } while (match("comma"))
funcParams(toks, p, params) ==
  Let(IF Len(params) >= MaxArgs
      THEN parserError(p, peek(toks, p), "Can't have more than 255 parameters.")
      ELSE p, LAMBDA q :
  Let(consume(toks, q, "identifier", "Expect parameter name."), LAMBDA param :
  IF param.thrown THEN param
  ELSE IF matches(toks, param.p, {"comma"})
  THEN funcParams(toks, advance(toks, param.p), Append(params, param.node))
  ELSE R(param.p, Append(params, param.node), FALSE)))

\* if (match("equal")) initializer = expression()
varInitializer(toks, r) ==
  IF r.thrown THEN r
  ELSE IF matches(toks, r.p, {"equal"})
  THEN part(r.node, expression(toks, advance(toks, r.p)))
  ELSE R(r.p, Append(r.node, Null), FALSE)

varDeclaration(toks, p) ==
  Node("var",
    expect(toks,
      varInitializer(toks,
        consumed(toks, begin(p), "identifier", "Expect variable name.")),
      "semicolon", "Expect ';' after variable declaration."))

statement(toks, p) ==
  CASE matches(toks, p, {"for"}) -> forStatement(toks, advance(toks, p))
    [] matches(toks, p, {"if"}) -> ifStatement(toks, advance(toks, p))
    [] matches(toks, p, {"print"}) -> printStatement(toks, advance(toks, p))
    [] matches(toks, p, {"return"}) -> returnStatement(toks, advance(toks, p))
    [] matches(toks, p, {"while"}) -> whileStatement(toks, advance(toks, p))
    [] matches(toks, p, {"left_brace"}) ->
         Node("block", andBlock(toks, begin(advance(toks, p))))
    [] OTHER -> expressionStatement(toks, p)

andExpression(toks, r) ==
  IF r.thrown THEN r ELSE part(r.node, expression(toks, r.p))

\* if (!check(type)) value = expression()
optExpression(toks, r, type) ==
  IF r.thrown THEN r
  ELSE IF ~check(toks, r.p, type) THEN part(r.node, expression(toks, r.p))
  ELSE R(r.p, Append(r.node, Null), FALSE)

andStatement(toks, r) ==
  IF r.thrown THEN r ELSE part(r.node, statement(toks, r.p))

andBlock(toks, r) ==
  IF r.thrown THEN r ELSE part(r.node, block(toks, r.p))

\* parts: keyword = previous(), the identity of the node, value
returnStatement(toks, p) ==
  Node("return",
    expect(toks,
      optExpression(toks, R(p, <<previous(toks, p), p.current - 1>>, FALSE),
                    "semicolon"),
      "semicolon", "Expect ';' after return value."))

block(toks, p) ==
  expect(toks, blockLoop(toks, p, <<>>), "right_brace", "Expect '}' after block.")

\* while (!check("right_brace") && !isAtEnd()) { declaration() ... }
blockLoop(toks, p, stmts) ==
  IF check(toks, p, "right_brace") \/ isAtEnd(toks, p) THEN R(p, stmts, FALSE)
  ELSE blockNext(toks, p, stmts, declaration(toks, p))

blockNext(toks, p, stmts, d) ==
  IF d.thrown THEN d
  ELSE IF d.p.current = p.current
  THEN R([d.p EXCEPT !.stuck = TRUE], Null, TRUE)
  ELSE blockLoop(toks, d.p,
                 IF d.node.type = "null" THEN stmts ELSE Append(stmts, d.node))

forInitializer(toks, r) ==
  IF r.thrown THEN r
  ELSE CASE matches(toks, r.p, {"semicolon"}) ->
              R(advance(toks, r.p), Append(r.node, Null), FALSE)
         [] matches(toks, r.p, {"var"}) ->
              part(r.node, varDeclaration(toks, advance(toks, r.p)))
         [] OTHER -> part(r.node, expressionStatement(toks, r.p))

\* forStatement with the increment put in front of the body in the inner
\* block
forStatementIncrementFirst(toks, p) ==
  Let(andStatement(toks,
        expect(toks,
          optExpression(toks,
            expect(toks,
              optExpression(toks,
                forInitializer(toks,
                  expect(toks, begin(p), "left_paren", "Expect '(' after 'for'.")),
                "semicolon"),
              "semicolon", "Expect ';' after loop condition."),
            "right_paren"),
          "right_paren", "Expect ')' after for clauses.")), LAMBDA r :
  IF r.thrown \/ r.node[3].type = "null" THEN Node("for", r)
  ELSE Node("for",
         R(r.p, <<r.node[1], r.node[2], Null,
                  [type |-> "block",
                   statements |-> <<[type |-> "expression",
                                     expression |-> r.node[3]],
                                    r.node[4]>>]>>, FALSE)))

forStatement(toks, p) ==
  Node("for",
    andStatement(toks,
      expect(toks,
        optExpression(toks,
          expect(toks,
            optExpression(toks,
              forInitializer(toks,
                expect(toks, begin(p), "left_paren", "Expect '(' after 'for'.")),
              "semicolon"),
            "semicolon", "Expect ';' after loop condition."),
          "right_paren"),
        "right_paren", "Expect ')' after for clauses.")))

\* if (match("else")) elseBranch = statement()
elseBranch(toks, r) ==
  IF r.thrown THEN r
  ELSE IF matches(toks, r.p, {"else"})
  THEN part(r.node, statement(toks, advance(toks, r.p)))
  ELSE R(r.p, Append(r.node, Null), FALSE)

ifStatement(toks, p) ==
  Node("if",
    elseBranch(toks,
      andStatement(toks,
        expect(toks,
          andExpression(toks,
            expect(toks, begin(p), "left_paren", "Expect '(' after 'if'.")),
          "right_paren", "Expect ')' after if condition."))))

whileStatement(toks, p) ==
  Node("while",
    andStatement(toks,
      expect(toks,
        andExpression(toks,
          expect(toks, begin(p), "left_paren", "Expect '(' after 'while'.")),
        "right_paren", "Expect ')' after condition.")))

printStatement(toks, p) ==
  Node("print",
    expect(toks, andExpression(toks, begin(p)),
           "semicolon", "Expect ';' after value."))

expressionStatement(toks, p) ==
  Node("expression",
    expect(toks, andExpression(toks, begin(p)),
           "semicolon", "Expect ';' after expression."))

expression(toks, p) == assignment(toks, p)

\* the assignment node for the target parsed before "=", or the report
\* The end of assignment() with "throw error(...)" for an invalid target
assignThrowing(target, equals, value) ==
  IF value.thrown THEN value
  ELSE IF target.type = "variable"
  THEN R(value.p, [type |-> "assignment", name |-> target.name,
                   value |-> value.node, id |-> target.id], FALSE)
  ELSE IF target.type = "get"
  THEN R(value.p, [type |-> "set", object |-> target.object,
                   name |-> target.name, value |-> value.node], FALSE)
  ELSE R([value.p EXCEPT !.errs =
            Append(@, errorToken(equals, "Invalid assignment target."))],
         Null, TRUE)

assign(target, equals, value) ==
  IF value.thrown THEN value
  ELSE IF target.type = "variable"
  THEN R(value.p, [type |-> "assignment", name |-> target.name,
                   value |-> value.node, id |-> target.id], FALSE)
  ELSE IF target.type = "get"
  THEN R(value.p, [type |-> "set", object |-> target.object,
                   name |-> target.name, value |-> value.node], FALSE)
  ELSE R([value.p EXCEPT !.errs =
            Append(@, errorToken(equals, "Invalid assignment target."))],
         target, FALSE)

assignment(toks, p) == assignmentTail(toks, operand(toks, p, 6))

\* if (match("equal")) { equals = previous(); value = assignment(); ... }
assignmentTail(toks, expr) ==
  IF expr.thrown THEN expr
  ELSE IF matches(toks, expr.p, {"equal"})
  THEN assign(expr.node, peek(toks, expr.p),
              assignment(toks, advance(toks, expr.p)))
  ELSE expr

\* The binary levels of the precedence ladder, tightest first: factor(),
\* term(), comparison(), equality(), and(), or().
Levels ==
  <<[types |-> {"slash", "star"}, node |-> "binary"],
    [types |-> {"minus", "plus"}, node |-> "binary"],
    [types |-> {"greater", "greater_equal", "less", "less_equal"},
     node |-> "binary"],
    [types |-> {"bang_equal", "equal_equal"}, node |-> "binary"],
    [types |-> {"and"}, node |-> "logical"],
    [types |-> {"or"}, node |-> "logical"]>>

\* The function of a level: each of the six calls the level below for its
\* first operand before it does anything else, so the first thing parsed is
\* a unary(); then the loops of the levels run, from factor() up to this one.
operand(toks, p, level) == levelsUpTo(toks, unary(toks, p), 1, level)

levelsUpTo(toks, left, from, level) ==
  IF left.thrown \/ from > level THEN left
  ELSE levelsUpTo(toks, leftAssoc(toks, left.p, left.node, from),
                  from + 1, level)

\* while (match(...types)) { operator = previous(); right = <level below>(); ... }
leftAssoc(toks, p, expr, level) ==
  IF matches(toks, p, Levels[level].types)
  THEN leftAssocNext(toks, peek(toks, p), expr, level,
                     operand(toks, advance(toks, p), level - 1))
  ELSE R(p, expr, FALSE)

leftAssocNext(toks, operator, expr, level, right) ==
  IF right.thrown THEN right
  ELSE leftAssoc(toks, right.p,
                 [type |-> Levels[level].node, left |-> expr,
                  operator |-> operator, right |-> right.node],
                 level)

unaryNode(operator, right) ==
  IF right.thrown THEN right
  ELSE R(right.p, [type |-> "unary", operator |-> operator,
                   right |-> right.node], FALSE)

unary(toks, p) ==
  IF matches(toks, p, {"bang", "minus"})
  THEN unaryNode(peek(toks, p), unary(toks, advance(toks, p)))
  ELSE call(toks, p)

call(toks, p) == callLoop(toks, primary(toks, p))

getNode(object, name) ==
  IF name.thrown THEN name
  ELSE R(name.p, [type |-> "get", object |-> object, name |-> name.node], FALSE)

\* while (true) { if (match("left_paren")) ... else if (match("dot")) ... else break }
callLoop(toks, expr) ==
  IF expr.thrown THEN expr
  ELSE CASE matches(toks, expr.p, {"left_paren"}) ->
              callLoop(toks, finishCall(toks, advance(toks, expr.p), expr.node))
         [] matches(toks, expr.p, {"dot"}) ->
              callLoop(toks,
                getNode(expr.node,
                        consume(toks, advance(toks, expr.p), "identifier",
                                "Expect property name after '.'.")))
         [] OTHER -> expr

finishCall(toks, p, callee) ==
  Node("call",
    consumed(toks, finishArguments(toks, R(p, <<callee>>, FALSE)),
          "right_paren", "Expect ')' after arguments."))

\* if (!check("right_paren")) { do ... while (match("comma")) }
finishArguments(toks, r) ==
  IF ~check(toks, r.p, "right_paren")
  THEN part(r.node, callArgs(toks, r.p, <<>>))
  ELSE R(r.p, Append(r.node, <<>>), FALSE)

\* do { ... args.push(expression()) } while (match("comma"))
callArgs(toks, p, args) ==
  callArgsNext(toks, args,
    expression(toks,
      IF Len(args) >= MaxArgs
      THEN parserError(p, peek(toks, p), "Can't have more than 255 arguments.")
      ELSE p))

callArgsNext(toks, args, arg) ==
  IF arg.thrown THEN arg
  ELSE IF matches(toks, arg.p, {"comma"})
  THEN callArgs(toks, advance(toks, arg.p), Append(args, arg.node))
  ELSE R(arg.p, Append(args, arg.node), FALSE)

literalNode(toks, p, value) ==
  R(advance(toks, p), [type |-> "literal", value |-> value], FALSE)

primary(toks, p) ==
  CASE matches(toks, p, {"false"}) -> literalNode(toks, p, Bool(FALSE))
    [] matches(toks, p, {"true"}) -> literalNode(toks, p, Bool(TRUE))
    [] matches(toks, p, {"nil"}) -> literalNode(toks, p, Nil)
    [] matches(toks, p, {"number", "string"}) ->
         literalNode(toks, p, peek(toks, p).literal)
    [] matches(toks, p, {"super"}) ->
         \* parts: keyword = previous(), the identity of the node, method
         Node("super",
           consumed(toks,
             expect(toks, R(advance(toks, p), <<peek(toks, p), p.current>>, FALSE),
                    "dot", "Expect '.' after 'super'."),
             "identifier", "Expect superclass method name."))
    [] matches(toks, p, {"this"}) ->
         R(advance(toks, p),
           [type |-> "this", keyword |-> peek(toks, p), id |-> p.current], FALSE)
    [] matches(toks, p, {"identifier"}) ->
         variableNode(R(advance(toks, p), peek(toks, p), FALSE))
    [] matches(toks, p, {"left_paren"}) ->
         Node("grouping",
           expect(toks, andExpression(toks, begin(advance(toks, p))),
                  "right_paren", "Expect ')' after expression."))
    [] OTHER -> R(parserError(p, peek(toks, p), "Expect expression."), Null, TRUE)


(***************************************************************************)
(* Resolver (resolver.ts)                                                  *)
(*                                                                         *)
(* A resolver state rs holds Resolver.scopes (a stack of maps from a name  *)
(* to "defined"), currentFunction, currentClass, the side-table            *)
(* Interpreter.locals it writes through Interpreter.resolve, and the       *)
(* errors it reported.                                                     *)
(***************************************************************************)
EmptyMap == [x \in {} |-> Undefined]

ResolverInit ==
  [scopes |-> <<>>, currentFunction |-> "none", currentClass |-> "none",
   locals |-> EmptyMap, errs |-> <<>>, next |-> 1]

resolverError(rs, token, message) ==
  [rs EXCEPT !.errs = Append(@, errorToken(token, message))]

beginScope(rs) == [rs EXCEPT !.scopes = Append(@, EmptyMap)]
\* endScope() that leaves the scope on the stack
endScopeWithoutPop(rs) == rs

endScope(rs) == [rs EXCEPT !.scopes = SubSeq(@, 1, Len(@) - 1)]
currScope(rs) == rs.scopes[Len(rs.scopes)]
\* this.currScope().set(name, flag)
scopeSet(rs, name, flag) ==
  [rs EXCEPT !.scopes[Len(rs.scopes)] = (name :> flag) @@ @]

\* declare that looks for the name in every open scope, not only in the
\* innermost
declareCheckingAllScopes(rs, name) ==
  IF Len(rs.scopes) = 0 THEN rs
  ELSE scopeSet(IF \E i \in 1..Len(rs.scopes) :
                     name.lexeme \in DOMAIN rs.scopes[i]
                THEN resolverError(rs, name,
                       "Already a variable with this name in this scope.")
                ELSE rs,
                name.lexeme, FALSE)

declare(rs, name) ==
  IF Len(rs.scopes) = 0 THEN rs
  ELSE scopeSet(IF name.lexeme \in DOMAIN currScope(rs)
                THEN resolverError(rs, name,
                       "Already a variable with this name in this scope.")
                ELSE rs,
                name.lexeme, FALSE)

define(rs, name) ==
  IF Len(rs.scopes) = 0 THEN rs ELSE scopeSet(rs, name.lexeme, TRUE)

\* Interpreter.resolve: this.locals.set(expr, depth)
resolve(locals, expr, depth) == (expr.id :> depth) @@ locals

\* resolveLocal whose loop runs from the outermost scope inwards
resolveLocalOutermostFirst(rs, expr, name) ==
  Let({j \in 1..Len(rs.scopes) : name.lexeme \in DOMAIN rs.scopes[j]}, LAMBDA hits :
  IF hits = {} THEN rs
  ELSE Let(CHOOSE k \in hits : \A m \in hits : m >= k, LAMBDA j :
       [rs EXCEPT !.locals = resolve(@, expr, Len(rs.scopes) - j)]))

\* for (i = scopes.length - 1; i >= 0; i--) if (scopes[i].has(name)) { resolve; return }
resolveLocal(rs, expr, name) ==
  Let({j \in 1..Len(rs.scopes) : name.lexeme \in DOMAIN rs.scopes[j]}, LAMBDA hits :
  IF hits = {} THEN rs
  ELSE Let(CHOOSE k \in hits : \A m \in hits : m <= k, LAMBDA j :
       [rs EXCEPT !.locals = resolve(@, expr, Len(rs.scopes) - j)]))

RECURSIVE resolveStmt(_, _), resolveStmts(_, _), resolveFunction(_, _, _),
          resolveMethods(_, _), resolveExpr(_, _), resolveExprs(_, _)

\* for (const stmt of stmts) this.resolveStmt(stmt): each statement is
\* resolved to its end before the next one starts (the test on the scopes
\* is always true; it makes the evaluation take the statements in order)
resolveStmts(rs, stmts) ==
  IF stmts = <<>> THEN rs
  ELSE Let(resolveStmt(rs, Head(stmts)), LAMBDA a :
       IF Len(a.scopes) >= 0 THEN resolveStmts(a, Tail(stmts)) ELSE a)

resolveExprs(rs, exprs) ==
  IF exprs = <<>> THEN rs
  ELSE Let(resolveExpr(rs, Head(exprs)), LAMBDA a :
       IF Len(a.scopes) >= 0 THEN resolveExprs(a, Tail(exprs)) ELSE a)

\* resolveFunction that leaves currentFunction at the kind of the function
\* it resolved
resolveFunctionWithoutRestore(rs, fn, type) ==
  Let(beginScope([rs EXCEPT !.currentFunction = type]), LAMBDA a :
  Let(resolveStmts(a, [i \in 1..Len(fn.params) |->
                         [type |-> "param", name |-> fn.params[i]]]), LAMBDA b :
  endScope(resolveStmts(b, fn.body))))

\* resolveFunction without the endScope() after the body
resolveFunctionWithoutEndScope(rs, fn, type) ==
  Let(rs.currentFunction, LAMBDA enclosingFunction :
  Let(beginScope([rs EXCEPT !.currentFunction = type]), LAMBDA a :
  Let(resolveStmts(a, [i \in 1..Len(fn.params) |->
                         [type |-> "param", name |-> fn.params[i]]]), LAMBDA b :
  Let(resolveStmts(b, fn.body), LAMBDA c :
  [c EXCEPT !.currentFunction = enclosingFunction]))))

\* resolveFunction that resolves the body as a block of its own, in a scope
\* inside the scope of the parameters
resolveFunctionBodyInOwnScope(rs, fn, type) ==
  Let(rs.currentFunction, LAMBDA enclosingFunction :
  Let(beginScope([rs EXCEPT !.currentFunction = type]), LAMBDA a :
  Let(resolveStmts(a, [i \in 1..Len(fn.params) |->
                         [type |-> "param", name |-> fn.params[i]]]), LAMBDA b :
  Let(endScope(endScope(resolveStmts(beginScope(b), fn.body))), LAMBDA c :
  [c EXCEPT !.currentFunction = enclosingFunction]))))

resolveFunction(rs, fn, type) ==
  Let(rs.currentFunction, LAMBDA enclosingFunction :
  Let(beginScope([rs EXCEPT !.currentFunction = type]), LAMBDA a :
  Let(resolveStmts(a, [i \in 1..Len(fn.params) |->
                         [type |-> "param", name |-> fn.params[i]]]), LAMBDA b :
  Let(endScope(resolveStmts(b, fn.body)), LAMBDA c :
  [c EXCEPT !.currentFunction = enclosingFunction]))))

resolveMethods(rs, methods) ==
  IF methods = <<>> THEN rs
  ELSE Let(resolveFunction(rs, Head(methods),
                           IF Head(methods).name.lexeme = "init"
                           THEN "initializer" ELSE "method"), LAMBDA a :
       IF Len(a.scopes) >= 0 THEN resolveMethods(a, Tail(methods)) ELSE a)

resolveStmt(rs, stmt) ==
  CASE stmt.type = "block" ->
         endScope(resolveStmts(beginScope(rs), stmt.statements))
    [] stmt.type = "class" ->
         Let(rs.currentClass, LAMBDA enclosingClass :
         Let(stmt.superclass.type # "null", LAMBDA hasSuper :
         Let(define(declare([rs EXCEPT !.currentClass = "class"], stmt.name),
                    stmt.name), LAMBDA a :
         Let(IF hasSuper /\ stmt.name.lexeme = stmt.superclass.name.lexeme
             THEN resolverError(a, stmt.superclass.name,
                                "A class can't inherit from itself.")
             ELSE a, LAMBDA b :
         Let(IF hasSuper
             THEN resolveExpr([b EXCEPT !.currentClass = "subclass"],
                              stmt.superclass)
             ELSE b, LAMBDA c :
         Let(IF hasSuper THEN scopeSet(beginScope(c), "super", TRUE) ELSE c, LAMBDA d :
         Let(scopeSet(beginScope(d), "this", TRUE), LAMBDA e :
         Let(endScope(resolveMethods(e, stmt.methods)), LAMBDA f :
         Let(IF hasSuper THEN endScope(f) ELSE f, LAMBDA g :
         [g EXCEPT !.currentClass = enclosingClass])))))))))
    [] stmt.type = "expression" -> resolveExpr(rs, stmt.expression)
    [] stmt.type = "function" ->
         resolveFunction(define(declare(rs, stmt.name), stmt.name), stmt, "function")
    [] stmt.type = "if" ->
         Let(resolveStmt(resolveExpr(rs, stmt.condition), stmt.thenBranch), LAMBDA a :
         IF stmt.elseBranch.type # "null" THEN resolveStmt(a, stmt.elseBranch)
         ELSE a)
    [] stmt.type = "print" -> resolveExpr(rs, stmt.expression)
    [] stmt.type = "return" ->
         Let(IF rs.currentFunction = "none"
             THEN resolverError(rs, stmt.keyword,
                                "Can't return from top-level code.")
             ELSE rs, LAMBDA a :
         IF stmt.value.type # "null"
         THEN resolveExpr(IF a.currentFunction = "initializer"
                          THEN resolverError(a, stmt.keyword,
                                 "Can't return a value from an initializer.")
                          ELSE a,
                          stmt.value)
         ELSE a)
    [] stmt.type = "var" ->
         Let(declare(rs, stmt.name), LAMBDA a :
         Let(IF stmt.initializer.type # "null"
             THEN resolveExpr(a, stmt.initializer) ELSE a, LAMBDA b :
         define(b, stmt.name)))
    [] stmt.type = "while" ->
         resolveStmt(resolveExpr(rs, stmt.condition), stmt.body)
    \* one pass of "for (const param of fn.params)" in resolveFunction
    [] stmt.type = "param" -> define(declare(rs, stmt.name), stmt.name)

resolveExpr(rs, expr) ==
  CASE expr.type = "assignment" ->
         resolveLocal(resolveExpr(rs, expr.value), expr, expr.name)
    [] expr.type \in {"binary", "logical"} ->
         resolveExpr(resolveExpr(rs, expr.left), expr.right)
    [] expr.type = "call" ->
         resolveExprs(resolveExpr(rs, expr.callee), expr.arguments)
    [] expr.type = "get" -> resolveExpr(rs, expr.object)
    [] expr.type = "grouping" -> resolveExpr(rs, expr.expression)
    [] expr.type = "literal" -> rs
    [] expr.type = "set" -> resolveExpr(resolveExpr(rs, expr.value), expr.object)
    [] expr.type = "super" ->
         resolveLocal(
           IF rs.currentClass = "none"
           THEN resolverError(rs, expr.keyword,
                              "Can't use 'super' outside of a class.")
           ELSE IF rs.currentClass # "subclass"
           THEN resolverError(rs, expr.keyword,
                              "Can't use 'super' in a class with no superclass.")
           ELSE rs,
           expr, expr.keyword)
    [] expr.type = "this" ->
         IF rs.currentClass = "none"
         THEN resolverError(rs, expr.keyword,
                            "Can't use 'this' outside of a class.")
         ELSE resolveLocal(rs, expr, expr.keyword)
    [] expr.type = "unary" -> resolveExpr(rs, expr.right)
    [] expr.type = "variable" ->
         resolveLocal(
           IF Len(rs.scopes) > 0
              /\ expr.name.lexeme \in DOMAIN currScope(rs)
              /\ currScope(rs)[expr.name.lexeme] = FALSE
           THEN resolverError(rs, expr.name,
                  "Can't read local variable in its own initializer.")
           ELSE rs,
           expr, expr.name)


(***************************************************************************)
(* Environment (environment.ts)                                            *)
(*                                                                         *)
(* An interpreter state st holds the Interpreter fields (locals,           *)
(* environment; globals is frame 1), the heaps envs, funs, classes and     *)
(* instances, the lines printed, the signal in flight (sig: "normal", or   *)
(* "return" with value and the identity ret of the return statement, or    *)
(* "error" with err, or "crash" for a JavaScript TypeError, or "fuel" when *)
(* the bound of the model on calls and loop passes is used up), and the    *)
(* observation log.  An evaluation returns [st, v].                        *)
(***************************************************************************)
MaxFuel == 12
MaxClock == 1

EV(st, v) == [st |-> st, v |-> v]
Throw(st, token, message) ==
  [st EXCEPT !.sig = "error",
             !.err = [line |-> token.line, message |-> message]]
Crash(st) == [st EXCEPT !.sig = "crash"]

\* An observation: what happened (ev) at which objects (x, y, z), how, with
\* which value.
Observe(st, ev, x, y, z, how, v) ==
  [st EXCEPT !.log = Append(@, [ev |-> ev, x |-> x, y |-> y, z |-> z,
                                how |-> how, v |-> v])]

\* new Environment(enclosing); the new frame is Len(envs)
newEnvironment(st, enclosing) ==
  [st EXCEPT !.envs = Append(@, [values |-> EmptyMap, enclosing |-> enclosing])]

envDefine(st, e, name, value) ==
  [st EXCEPT !.envs[e].values = (name :> value) @@ @]

mapGet(map, name) == IF name \in DOMAIN map THEN map[name] ELSE Undefined

RECURSIVE envGet(_, _, _)
envGet(st, e, name) ==
  IF mapGet(st.envs[e].values, name.lexeme) # Undefined
  THEN EV(st, st.envs[e].values[name.lexeme])
  ELSE IF st.envs[e].enclosing # 0 THEN envGet(st, st.envs[e].enclosing, name)
  ELSE EV(Throw(st, name, "Undefined variable '" \o name.lexeme \o "'."), Undefined)

RECURSIVE envAssign(_, _, _, _)
envAssign(st, e, name, value) ==
  IF name.lexeme \in DOMAIN st.envs[e].values
  THEN envDefine(st, e, name.lexeme, value)
  ELSE IF st.envs[e].enclosing # 0
  THEN envAssign(st, st.envs[e].enclosing, name, value)
  ELSE Throw(st, name, "Undefined variable '" \o name.lexeme \o "'.")

\* for (i = 0; i < distance; i++) env = env.enclosing; 0 stands for null
RECURSIVE ancestor(_, _, _)
ancestor(st, e, distance) ==
  IF distance <= 0 \/ e = 0 THEN e
  ELSE ancestor(st, st.envs[e].enclosing, distance - 1)

\* getAt and assignAt are observed: from which frame, how far, the frame
\* reached (0 when the chain ends before it), the name, and the value the
\* frame had for it (Undefined when it has none).
getAt(st, e, distance, name) ==
  Let(ancestor(st, e, distance), LAMBDA a :
  IF a = 0
  THEN EV(Crash(Observe(st, "getAt", e, distance, a, name, Undefined)), Undefined)
  ELSE Let(mapGet(st.envs[a].values, name), LAMBDA value :
       EV(Observe(st, "getAt", e, distance, a, name, value), value)))

assignAt(st, e, distance, name, value) ==
  Let(ancestor(st, e, distance), LAMBDA a :
  IF a = 0
  THEN Crash(Observe(st, "assignAt", e, distance, a, name.lexeme, Undefined))
  ELSE envDefine(Observe(st, "assignAt", e, distance, a, name.lexeme,
                         mapGet(st.envs[a].values, name.lexeme)),
                 a, name.lexeme, value))

(***************************************************************************)
(* Interpreter (interpreter.ts)                                            *)
(***************************************************************************)
Clock == [t |-> "native", n |-> 0, s |-> "clock"]

\* new Interpreter(): globals holds clock, environment = globals
InterpreterInit ==
  [locals |-> EmptyMap, environment |-> 1,
   envs |-> <<[values |-> ("clock" :> Clock), enclosing |-> 0]>>,
   funs |-> <<>>, classes |-> <<>>, instances |-> <<>>,
   out |-> <<>>, sig |-> "normal", value |-> Nil, ret |-> 0,
   err |-> [line |-> 0, message |-> ""],
   fuel |-> MaxFuel, callee |-> 0, now |-> 0, next |-> 1, log |-> <<>>]

isCallable(v) == v.t \in {"fn", "class", "native"}

isTruthy(value) ==
  IF value.t = "nil" THEN FALSE
  ELSE IF value.t = "bool" THEN value.n = 1
  ELSE TRUE

isEqual(a, b) ==
  IF a.t = "nil" /\ b.t = "nil" THEN TRUE
  ELSE IF a.t = "nil" THEN FALSE
  ELSE a = b

numberToString(v) ==
  (IF v.n < 0 THEN "-" \o ToString(0 - v.n) ELSE ToString(v.n)) \o v.s

stringify(st, value) ==
  CASE value.t = "nil" -> "nil"
    [] value.t = "bool" -> IF value.n = 1 THEN "true" ELSE "false"
    [] value.t = "num" -> numberToString(value)
    [] value.t = "str" -> value.s
    [] value.t = "fn" ->
         "<fn " \o st.funs[value.n].declaration.name.lexeme \o ">"
    [] value.t = "class" -> st.classes[value.n].name
    [] value.t = "instance" ->
         st.classes[st.instances[value.n].klass].name \o " instance"
    [] value.t = "native" -> "<native fn>"
    [] OTHER -> "undefined"

\* The arithmetic of two numbers.  A quotient that is no integer, and any
\* operation on such a number, yields the number marked by s = "frac".
NotAnInteger == [t |-> "num", n |-> 0, s |-> "frac"]
arithmetic(op, left, right) ==
  IF left.s # "" \/ right.s # ""
  THEN IF op \in {"minus", "plus", "slash", "star"} THEN NotAnInteger
       ELSE Bool(FALSE)
  ELSE CASE op = "minus" -> Num(left.n - right.n)
         [] op = "plus" -> Num(left.n + right.n)
         [] op = "star" -> Num(left.n * right.n)
         [] op = "slash" ->
              Let(IF right.n < 0 THEN 0 - right.n ELSE right.n, LAMBDA d :
              Let(IF right.n < 0 THEN 0 - left.n ELSE left.n, LAMBDA m :
              IF d # 0 /\ (m \div d) * d = m THEN Num(m \div d)
              ELSE NotAnInteger))
         [] op = "greater" -> Bool(left.n > right.n)
         [] op = "greater_equal" -> Bool(left.n >= right.n)
         [] op = "less" -> Bool(left.n < right.n)
         [] OTHER -> Bool(left.n <= right.n)

\* LoxClass.findMethod: the function, or 0 for undefined
RECURSIVE findMethod(_, _, _)
findMethod(st, klass, name) ==
  IF name \in DOMAIN st.classes[klass].methods
  THEN st.classes[klass].methods[name]
  ELSE IF st.classes[klass].superclass # 0
  THEN findMethod(st, st.classes[klass].superclass, name)
  ELSE 0

\* Callable.arity of LoxFunction, LoxClass and clock
arity(st, callee) ==
  CASE callee.t = "fn" -> Len(st.funs[callee.n].declaration.params)
    [] callee.t = "class" ->
         Let(findMethod(st, callee.n, "init"), LAMBDA initializer :
         IF initializer = 0 THEN 0
         ELSE Len(st.funs[initializer].declaration.params))
    [] OTHER -> 0

\* new LoxFunction(declaration, closure, isInitializer); the new function is
\* Len(funs)
newFunction(st, decl, closure, isInitializer) ==
  [st EXCEPT !.funs = Append(@, [declaration |-> decl,
                                 closure |-> closure,
                                 isInitializer |-> isInitializer])]

\* bind() that defines "this" in the closure itself, which the bound
\* functions of all instances of the class share
bindInClosure(st, f, instance) ==
  Let(envDefine(st, st.funs[f].closure, "this", instance), LAMBDA b :
  Let(newFunction(b, st.funs[f].declaration, st.funs[f].closure,
                  st.funs[f].isInitializer), LAMBDA c :
  EV(c, Ref("fn", Len(c.funs)))))

\* LoxFunction.bind
bind(st, f, instance) ==
  Let(newEnvironment(st, st.funs[f].closure), LAMBDA a :
  Let(envDefine(a, Len(a.envs), "this", instance), LAMBDA b :
  Let(newFunction(b, st.funs[f].declaration, Len(a.envs),
                  st.funs[f].isInitializer), LAMBDA c :
  EV(c, Ref("fn", Len(c.funs))))))

RECURSIVE execute(_, _), executeStmts(_, _), executeBlock(_, _, _),
          whileLoop(_, _), evaluate(_, _), evaluateArgs(_, _, _),
          evaluateBinary(_, _), evaluateCall(_, _), callFunction(_, _, _),
          callClass(_, _, _), evaluateSet(_, _), evaluateSuper(_, _)

\* environment.define(params[i].lexeme, args[i]) for each i
RECURSIVE defineParams(_, _, _, _)
defineParams(st, e, params, args) ==
  IF params = <<>> THEN st
  ELSE defineParams(envDefine(st, e, Head(params).lexeme,
                              IF args = <<>> THEN Undefined ELSE Head(args)),
                    e, Tail(params), IF args = <<>> THEN args ELSE Tail(args))

\* The end of LoxFunction.call without its catch: a Return is thrown on
functionReturnWithoutCatch(st, f, c) ==
  Let(getAt(c, st.funs[f].closure, 0, "this"), LAMBDA this :
  IF c.sig # "normal" THEN EV(c, Undefined)
  ELSE IF st.funs[f].isInitializer
  THEN EV(Observe(this.st, "fncall", 1, 0, f, "normal", this.v), this.v)
  ELSE EV(Observe(c, "fncall", 0, 0, f, "normal", Nil), Nil))

\* The end of LoxFunction.call whose catch returns e.value for every
\* function, initializers included
functionReturnAlwaysValue(st, f, c) ==
  Let(st.funs[f], LAMBDA fn :
  Let([c EXCEPT !.sig = "normal", !.value = Nil, !.ret = 0], LAMBDA caught :
  Let(getAt(c, fn.closure, 0, "this"), LAMBDA this :
  Let(IF fn.isInitializer THEN 1 ELSE 0, LAMBDA x :
  IF c.sig = "return"
  THEN EV(Observe(caught, "fncall", x, c.ret, f, "return", c.value), c.value)
  ELSE IF c.sig # "normal" THEN EV(c, Undefined)
  ELSE IF fn.isInitializer
       THEN EV(Observe(this.st, "fncall", 1, 0, f, "normal", this.v), this.v)
       ELSE EV(Observe(c, "fncall", 0, 0, f, "normal", Nil), Nil)))))

\* LoxFunction.call after executeBlock: st is the state at the call, c the
\* state executeBlock left.  A Return is caught here, anything else is
\* thrown on.
functionReturn(st, f, c) ==
  Let(st.funs[f], LAMBDA fn :
  Let([c EXCEPT !.sig = "normal", !.value = Nil, !.ret = 0], LAMBDA caught :
  Let(getAt(caught, fn.closure, 0, "this"), LAMBDA this :
  IF c.sig = "return"
  THEN IF fn.isInitializer
       THEN EV(Observe(this.st, "fncall", 1, c.ret, f, "return", this.v),
               this.v)
       ELSE EV(Observe(caught, "fncall", 0, c.ret, f, "return", c.value),
               c.value)
  ELSE IF c.sig # "normal" THEN EV(c, Undefined)
  ELSE IF fn.isInitializer
       THEN EV(Observe(this.st, "fncall", 1, 0, f, "normal", this.v), this.v)
       ELSE EV(Observe(c, "fncall", 0, 0, f, "normal", Nil), Nil))))

\* LoxFunction.call whose new frame encloses the caller's current
\* environment instead of the closure
callFunctionInCallerScope(st, f, args) ==
  IF st.fuel = 0 THEN EV([st EXCEPT !.sig = "fuel"], Undefined) ELSE
  Let(st.funs[f], LAMBDA fn :
  Let(newEnvironment([st EXCEPT !.fuel = @ - 1], st.environment), LAMBDA a :
  Let(Len(a.envs), LAMBDA environment :
  Let(defineParams(Observe(a, "frame", environment, st.environment, f,
                           "", Nil),
                   environment, fn.declaration.params, args), LAMBDA b :
  Let([executeBlock([b EXCEPT !.callee = f], fn.declaration.body,
                    environment) EXCEPT !.callee = st.callee], LAMBDA c :
  functionReturn(st, f, c))))))

\* LoxFunction.call that defines the parameters in the closure itself and
\* runs the body there, with no frame of its own
callFunctionInClosureFrame(st, f, args) ==
  IF st.fuel = 0 THEN EV([st EXCEPT !.sig = "fuel"], Undefined) ELSE
  Let(st.funs[f], LAMBDA fn :
  Let([st EXCEPT !.fuel = @ - 1], LAMBDA a :
  Let(fn.closure, LAMBDA environment :
  Let(defineParams(Observe(a, "frame", environment, st.environment, f,
                           "", Nil),
                   environment, fn.declaration.params, args), LAMBDA b :
  Let([executeBlock([b EXCEPT !.callee = f], fn.declaration.body,
                    environment) EXCEPT !.callee = st.callee], LAMBDA c :
  functionReturn(st, f, c))))))

\* LoxFunction.call: the new frame, the parameters, the body
callFunction(st, f, args) ==
  IF st.fuel = 0 THEN EV([st EXCEPT !.sig = "fuel"], Undefined) ELSE
  Let(st.funs[f], LAMBDA fn :
  Let(newEnvironment([st EXCEPT !.fuel = @ - 1], fn.closure), LAMBDA a :
  Let(Len(a.envs), LAMBDA environment :
  Let(defineParams(Observe(a, "frame", environment, st.environment, f,
                           "", Nil),
                   environment, fn.declaration.params, args), LAMBDA b :
  Let([executeBlock([b EXCEPT !.callee = f], fn.declaration.body,
                    environment) EXCEPT !.callee = st.callee], LAMBDA c :
  functionReturn(st, f, c))))))

\* LoxClass.call
callClass(st, klass, args) ==
  Let([st EXCEPT !.instances = Append(@, [klass |-> klass,
                                          fields |-> EmptyMap])], LAMBDA a :
  Let(Ref("instance", Len(a.instances)), LAMBDA instance :
  Let(findMethod(a, klass, "init"), LAMBDA initializer :
  IF initializer = 0
  THEN EV(Observe(a, "new", 0, instance.n, klass, "normal", instance), instance)
  ELSE Let(bind(a, initializer, instance), LAMBDA bound :
       Let(callFunction(bound.st, bound.v.n, args), LAMBDA r :
       IF r.st.sig # "normal" THEN r
       ELSE EV(Observe(r.st, "new", 0, instance.n, klass, "normal",
                       instance), instance))))))

\* LoxInstance.get looking in the methods before the fields
instanceGetMethodsFirst(st, instance, name) ==
  Let(mapGet(st.instances[instance].fields, name.lexeme), LAMBDA value :
  Let(findMethod(st, st.instances[instance].klass, name.lexeme), LAMBDA method :
  IF method # 0
  THEN Let(bind(st, method, Ref("instance", instance)), LAMBDA bound :
       EV(Observe(bound.st, "get", instance, 0, bound.v.n, name.lexeme,
                  bound.v), bound.v))
  ELSE IF value # Undefined THEN EV(st, value)
  ELSE EV(Throw(st, name, "Undefined property '" \o name.lexeme \o "'."),
          Undefined)))

\* LoxInstance.get
instanceGet(st, instance, name) ==
  Let(mapGet(st.instances[instance].fields, name.lexeme), LAMBDA value :
  Let(findMethod(st, st.instances[instance].klass, name.lexeme), LAMBDA method :
  IF value # Undefined THEN EV(st, value)
  ELSE IF method # 0
  THEN Let(bind(st, method, Ref("instance", instance)), LAMBDA bound :
       EV(Observe(bound.st, "get", instance, 0, bound.v.n, name.lexeme,
                  bound.v), bound.v))
  ELSE EV(Throw(st, name, "Undefined property '" \o name.lexeme \o "'."),
          Undefined)))

lookUpVariable(st, name, expr) ==
  IF expr.id \in DOMAIN st.locals
  THEN getAt(st, st.environment, st.locals[expr.id], name.lexeme)
  ELSE envGet(st, 1, name)

evaluateArgs(st, exprs, args) ==
  IF exprs = <<>> THEN EV(st, args)
  ELSE Let(evaluate(st, Head(exprs)), LAMBDA a :
       IF a.st.sig # "normal" THEN a
       ELSE evaluateArgs(a.st, Tail(exprs), Append(args, a.v)))

\* evaluateBinary checking the type of the left operand before it evaluates
\* the right operand
evaluateBinaryCheckingLeftFirst(st, expr) ==
  Let(evaluate(st, expr.left), LAMBDA left :
  IF left.st.sig # "normal" THEN left ELSE
  Let(expr.operator.type, LAMBDA op :
  IF op \notin {"bang_equal", "equal_equal"} /\ left.v.t # "num"
     /\ (op # "plus" \/ left.v.t # "str")
  THEN EV(Throw(left.st, expr.operator,
                IF op = "plus"
                THEN "Operands must be two numbers or two strings."
                ELSE "Operands must be numbers."), Undefined) ELSE
  Let(evaluate(left.st, expr.right), LAMBDA right :
  Let(left.v.t = "num" /\ right.v.t = "num", LAMBDA numbers :
  IF right.st.sig # "normal" THEN right ELSE
  CASE op = "bang_equal" -> EV(right.st, Bool(~isEqual(left.v, right.v)))
    [] op = "equal_equal" -> EV(right.st, Bool(isEqual(left.v, right.v)))
    [] op = "plus" ->
         IF numbers THEN EV(right.st, arithmetic(op, left.v, right.v))
         ELSE IF left.v.t = "str" /\ right.v.t = "str"
         THEN EV(right.st, Str(left.v.s \o right.v.s))
         ELSE EV(Throw(right.st, expr.operator,
                       "Operands must be two numbers or two strings."),
                 Undefined)
    [] OTHER ->
         IF numbers THEN EV(right.st, arithmetic(op, left.v, right.v))
         ELSE EV(Throw(right.st, expr.operator, "Operands must be numbers."),
                 Undefined)))))

evaluateBinary(st, expr) ==
  Let(evaluate(st, expr.left), LAMBDA left :
  IF left.st.sig # "normal" THEN left ELSE
  Let(evaluate(left.st, expr.right), LAMBDA right :
  Let(expr.operator.type, LAMBDA op :
  Let(left.v.t = "num" /\ right.v.t = "num", LAMBDA numbers :
  IF right.st.sig # "normal" THEN right ELSE
  CASE op = "bang_equal" -> EV(right.st, Bool(~isEqual(left.v, right.v)))
    [] op = "equal_equal" -> EV(right.st, Bool(isEqual(left.v, right.v)))
    [] op = "plus" ->
         IF numbers THEN EV(right.st, arithmetic(op, left.v, right.v))
         ELSE IF left.v.t = "str" /\ right.v.t = "str"
         THEN EV(right.st, Str(left.v.s \o right.v.s))
         ELSE EV(Throw(right.st, expr.operator,
                       "Operands must be two numbers or two strings."),
                 Undefined)
    [] OTHER ->
         IF numbers THEN EV(right.st, arithmetic(op, left.v, right.v))
         ELSE EV(Throw(right.st, expr.operator, "Operands must be numbers."),
                 Undefined)))))

\* evaluateCall checking that the callee is callable before it evaluates the
\* arguments
evaluateCallCheckingCalleeFirst(st, expr) ==
  Let(evaluate(st, expr.callee), LAMBDA callee :
  IF callee.st.sig # "normal" THEN callee ELSE
  IF ~isCallable(callee.v)
  THEN EV(Throw(callee.st, expr.paren, "Can only call functions and classes."),
          Undefined) ELSE
  Let(evaluateArgs(callee.st, expr.arguments, <<>>), LAMBDA args :
  IF args.st.sig # "normal" THEN args ELSE
  IF Len(args.v) # arity(args.st, callee.v)
  THEN EV(Throw(args.st, expr.paren,
                "Expected " \o ToString(arity(args.st, callee.v))
                  \o " arguments but got " \o ToString(Len(args.v)) \o "."),
          Undefined)
  ELSE Let(CASE callee.v.t = "fn" ->
                  callFunction(args.st, callee.v.n, args.v)
             [] callee.v.t = "class" ->
                  callClass(args.st, callee.v.n, args.v)
             [] OTHER -> EV(args.st, Num(args.st.now)), LAMBDA r :
       EV(Observe(r.st, "call", args.st.environment, r.st.environment,
                  IF callee.v.t = "fn" THEN callee.v.n ELSE 0,
                  r.st.sig, r.v), r.v))))

evaluateCall(st, expr) ==
  Let(evaluate(st, expr.callee), LAMBDA callee :
  IF callee.st.sig # "normal" THEN callee ELSE
  Let(evaluateArgs(callee.st, expr.arguments, <<>>), LAMBDA args :
  IF args.st.sig # "normal" THEN args ELSE
  IF ~isCallable(callee.v)
  THEN EV(Throw(args.st, expr.paren, "Can only call functions and classes."),
          Undefined)
  ELSE IF Len(args.v) # arity(args.st, callee.v)
  THEN EV(Throw(args.st, expr.paren,
                "Expected " \o ToString(arity(args.st, callee.v))
                  \o " arguments but got " \o ToString(Len(args.v)) \o "."),
          Undefined)
  ELSE Let(CASE callee.v.t = "fn" ->
                  callFunction(args.st, callee.v.n, args.v)
             [] callee.v.t = "class" ->
                  callClass(args.st, callee.v.n, args.v)
             [] OTHER -> EV(args.st, Num(args.st.now)), LAMBDA r :
       EV(Observe(r.st, "call", args.st.environment, r.st.environment,
                  IF callee.v.t = "fn" THEN callee.v.n ELSE 0,
                  r.st.sig, r.v), r.v))))

\* evaluateSet that evaluates the value before the object
evaluateSetValueFirst(st, expr) ==
  Let(evaluate(st, expr.value), LAMBDA value :
  IF value.st.sig # "normal" THEN value ELSE
  Let(evaluate(value.st, expr.object), LAMBDA object :
  IF object.st.sig # "normal" THEN object ELSE
  IF object.v.t # "instance"
  THEN EV(Throw(object.st, expr.name, "Only instances have fields."), Undefined)
  ELSE EV([object.st EXCEPT !.instances[object.v.n].fields =
                              (expr.name.lexeme :> value.v) @@ @],
          value.v)))

evaluateSet(st, expr) ==
  Let(evaluate(st, expr.object), LAMBDA object :
  IF object.st.sig # "normal" THEN object ELSE
  IF object.v.t # "instance"
  THEN EV(Throw(object.st, expr.name, "Only instances have fields."), Undefined)
  ELSE Let(evaluate(object.st, expr.value), LAMBDA value :
       IF value.st.sig # "normal" THEN value
       ELSE EV([value.st EXCEPT !.instances[object.v.n].fields =
                                  (expr.name.lexeme :> value.v) @@ @],
               value.v)))

\* evaluateSuper looking the method up from the superclass of the class of
\* the receiver
evaluateSuperOfReceiver(st, expr) ==
  IF expr.id \notin DOMAIN st.locals THEN EV(Crash(st), Undefined) ELSE
  Let(st.locals[expr.id], LAMBDA distance :
  Let(getAt(st, st.environment, distance - 1, "this"), LAMBDA inst :
  IF inst.v.t # "instance" THEN EV(Crash(inst.st), Undefined)
  ELSE Let(findMethod(st, st.classes[st.instances[inst.v.n].klass].superclass,
                      expr.method.lexeme), LAMBDA method :
       IF method = 0
       THEN EV(Throw(inst.st, expr.method,
                     "Undefined property '" \o expr.method.lexeme \o "'."),
               Undefined)
       ELSE bind(inst.st, method, inst.v))))

evaluateSuper(st, expr) ==
  IF expr.id \notin DOMAIN st.locals THEN EV(Crash(st), Undefined) ELSE
  Let(st.locals[expr.id], LAMBDA distance :
  Let(getAt(st, st.environment, distance, "super"), LAMBDA superclass :
  Let(getAt(superclass.st, st.environment, distance - 1, "this"), LAMBDA inst :
  IF superclass.v.t # "class" \/ inst.v.t # "instance"
  THEN EV(Crash(inst.st), Undefined)
  ELSE Let(findMethod(st, superclass.v.n, expr.method.lexeme), LAMBDA method :
       IF method = 0
       THEN EV(Throw(inst.st, expr.method,
                     "Undefined property '" \o expr.method.lexeme \o "'."),
               Undefined)
       ELSE bind(inst.st, method, inst.v)))))

evaluate(st, expr) ==
  CASE expr.type = "assignment" ->
         Let(evaluate(st, expr.value), LAMBDA value :
         IF value.st.sig # "normal" THEN value
         ELSE IF expr.id \in DOMAIN value.st.locals
         THEN EV(assignAt(value.st, value.st.environment,
                          value.st.locals[expr.id], expr.name, value.v),
                 value.v)
         ELSE EV(envAssign(value.st, 1, expr.name, value.v), value.v))
    [] expr.type = "binary" -> evaluateBinary(st, expr)
    [] expr.type = "call" -> evaluateCall(st, expr)
    [] expr.type = "get" ->
         Let(evaluate(st, expr.object), LAMBDA object :
         IF object.st.sig # "normal" THEN object
         ELSE IF object.v.t = "instance"
         THEN instanceGet(object.st, object.v.n, expr.name)
         ELSE EV(Throw(object.st, expr.name, "Only instances have properties."),
                 Undefined))
    [] expr.type = "grouping" -> evaluate(st, expr.expression)
    [] expr.type = "literal" -> EV(st, expr.value)
    [] expr.type = "logical" ->
         Let(evaluate(st, expr.left), LAMBDA left :
         IF left.st.sig # "normal" THEN left
         ELSE IF expr.operator.type = "or"
         THEN IF isTruthy(left.v) THEN left ELSE evaluate(left.st, expr.right)
         ELSE IF ~isTruthy(left.v) THEN left ELSE evaluate(left.st, expr.right))
    [] expr.type = "set" -> evaluateSet(st, expr)
    [] expr.type = "super" -> evaluateSuper(st, expr)
    [] expr.type = "this" ->
         Let(lookUpVariable(st, expr.keyword, expr), LAMBDA this :
         EV(Observe(this.st, "this", 0, 0, st.callee, "", this.v), this.v))
    [] expr.type = "unary" ->
         Let(evaluate(st, expr.right), LAMBDA right :
         IF right.st.sig # "normal" THEN right
         ELSE IF expr.operator.type = "minus"
         THEN IF right.v.t = "num"
              THEN EV(right.st, arithmetic("minus", Num(0), right.v))
              ELSE EV(Throw(right.st, expr.operator, "Operand must be a number."),
                      Undefined)
         ELSE EV(right.st, Bool(~isTruthy(right.v))))
    [] expr.type = "variable" -> lookUpVariable(st, expr.name, expr)

executeStmts(st, stmts) ==
  IF stmts = <<>> THEN st
  ELSE Let(execute(st, Head(stmts)), LAMBDA a :
       IF a.sig # "normal" THEN a ELSE executeStmts(a, Tail(stmts)))

\* executeBlock that restores the environment after the loop instead of in
\* a finally clause: a Return or RuntimeError leaves the block's frame current
executeBlockWithoutFinally(st, stmts, environment) ==
  Let(st.environment, LAMBDA prev :
  Let(executeStmts([st EXCEPT !.environment = environment], stmts), LAMBDA a :
  Let(IF a.sig = "normal" THEN [a EXCEPT !.environment = prev] ELSE a, LAMBDA b :
  Observe(b, "block", prev, b.environment, environment, a.sig, Nil))))

\* try { environment = environment; execute each } finally { restore }
executeBlock(st, stmts, environment) ==
  Let(st.environment, LAMBDA prev :
  Let(executeStmts([st EXCEPT !.environment = environment], stmts), LAMBDA a :
  Let([a EXCEPT !.environment = prev], LAMBDA b :
  Observe(b, "block", prev, b.environment, environment, a.sig, Nil))))

whileLoop(st, stmt) ==
  Let(evaluate(st, stmt.condition), LAMBDA condition :
  IF condition.st.sig # "normal" THEN condition.st
  ELSE IF ~isTruthy(condition.v) THEN condition.st
  ELSE IF condition.st.fuel = 0 THEN [condition.st EXCEPT !.sig = "fuel"]
  ELSE Let(execute([condition.st EXCEPT !.fuel = @ - 1], stmt.body), LAMBDA a :
       IF a.sig # "normal" THEN a ELSE whileLoop(a, stmt)))

\* new LoxFunction(method, this.environment, name === "init") for each method;
\* methods.set(name, fn)
RECURSIVE makeMethods(_, _, _)
makeMethods(st, methods, map) ==
  IF methods = <<>> THEN EV(st, map)
  ELSE Let(newFunction(st, Head(methods), st.environment,
                       Head(methods).name.lexeme = "init"), LAMBDA a :
       makeMethods(a, Tail(methods),
                   (Head(methods).name.lexeme :> Len(a.funs)) @@ map))

executeClass(st, stmt) ==
  Let(stmt.superclass.type # "null", LAMBDA hasSuper :
  Let(IF hasSuper THEN evaluate(st, stmt.superclass) ELSE EV(st, Nil), LAMBDA s :
  IF s.st.sig # "normal" THEN s.st ELSE
  IF hasSuper /\ s.v.t # "class"
  THEN Throw(s.st, stmt.superclass.name, "Superclass must be a class.") ELSE
  Let(IF hasSuper THEN s.v.n ELSE 0, LAMBDA superclass :
  Let(envDefine(s.st, s.st.environment, stmt.name.lexeme, Nil), LAMBDA a :
  Let(IF hasSuper
      THEN Let(newEnvironment(a, a.environment), LAMBDA n :
           envDefine([n EXCEPT !.environment = Len(n.envs)],
                     Len(n.envs), "super", s.v))
      ELSE a, LAMBDA b :
  Let(makeMethods(b, stmt.methods, EmptyMap), LAMBDA methods :
  Let([methods.st EXCEPT !.classes =
         Append(@, [name |-> stmt.name.lexeme, superclass |-> superclass,
                    methods |-> methods.v])], LAMBDA c :
  Let(IF superclass # 0
      THEN [c EXCEPT !.environment = c.envs[c.environment].enclosing]
      ELSE c, LAMBDA d :
  envAssign(d, d.environment, stmt.name, Ref("class", Len(d.classes)))))))))))

execute(st, stmt) ==
  CASE stmt.type = "block" ->
         Let(newEnvironment(st, st.environment), LAMBDA a :
         executeBlock(a, stmt.statements, Len(a.envs)))
    [] stmt.type = "class" -> executeClass(st, stmt)
    [] stmt.type = "expression" -> evaluate(st, stmt.expression).st
    [] stmt.type = "function" ->
         Let(newFunction(st, stmt, st.environment, FALSE), LAMBDA a :
         Observe(envDefine(a, a.environment, stmt.name.lexeme,
                           Ref("fn", Len(a.funs))),
                 "function", a.environment, 0, Len(a.funs), "", Nil))
    [] stmt.type = "if" ->
         Let(evaluate(st, stmt.condition), LAMBDA condition :
         IF condition.st.sig # "normal" THEN condition.st
         ELSE IF isTruthy(condition.v)
         THEN execute(condition.st, stmt.thenBranch)
         ELSE IF stmt.elseBranch.type # "null"
         THEN execute(condition.st, stmt.elseBranch)
         ELSE condition.st)
    [] stmt.type = "print" ->
         Let(evaluate(st, stmt.expression), LAMBDA value :
         IF value.st.sig # "normal" THEN value.st
         ELSE IF value.v = Undefined THEN Crash(value.st)
         ELSE [value.st EXCEPT !.out = Append(@, stringify(value.st, value.v))])
    [] stmt.type = "return" ->
         Let(IF stmt.value.type # "null" THEN evaluate(st, stmt.value)
             ELSE EV(st, Nil), LAMBDA value :
         IF value.st.sig # "normal" THEN value.st
         ELSE [value.st EXCEPT !.sig = "return", !.value = value.v,
                               !.ret = stmt.id])
    [] stmt.type = "var" ->
         Let(IF stmt.initializer.type # "null"
             THEN evaluate(st, stmt.initializer)
             ELSE EV(st, Nil), LAMBDA value :
         IF value.st.sig # "normal" THEN value.st
         ELSE envDefine(value.st, value.st.environment, stmt.name.lexeme,
                        value.v))
    [] stmt.type = "while" -> whileLoop(st, stmt)


(***************************************************************************)
(* Input programs                                                          *)
(***************************************************************************)
\*   print 1 + 2;
ProgSum ==
  <<"p", "r", "i", "n", "t", " ", "1", " ", "+", " ", "2", ";">>

\*   var a = "hi"; print a + " there";
ProgConcat ==
  <<"v", "a", "r", " ", "a", " ", "=", " ", "\"", "h", "i", "\"", ";", " ",
    "p", "r", "i", "n", "t", " ", "a", " ", "+", " ", "\"", " ", "t", "h",
    "e", "r", "e", "\"", ";">>

\*   for (var i = 0; i < 3; i = i + 1) print i;
ProgFor ==
  <<"f", "o", "r", " ", "(", "v", "a", "r", " ", "i", " ", "=", " ", "0",
    ";", " ", "i", " ", "<", " ", "3", ";", " ", "i", " ", "=", " ", "i",
    " ", "+", " ", "1", ")", " ", "p", "r", "i", "n", "t", " ", "i", ";">>

\*   fun fib(n){ if (n<2) return n; return fib(n-1)+fib(n-2); } print fib(3);
ProgFib ==
  <<"f", "u", "n", " ", "f", "i", "b", "(", "n", ")", "{", " ", "i", "f",
    " ", "(", "n", "<", "2", ")", " ", "r", "e", "t", "u", "r", "n", " ",
    "n", ";", " ", "r", "e", "t", "u", "r", "n", " ", "f", "i", "b", "(",
    "n", "-", "1", ")", "+", "f", "i", "b", "(", "n", "-", "2", ")", ";",
    " ", "}", " ", "p", "r", "i", "n", "t", " ", "f", "i", "b", "(", "3",
    ")", ";">>

\*   class A{ greet(){ print "hi"; } } class B < A {} B().greet();
ProgInherit ==
  <<"c", "l", "a", "s", "s", " ", "A", "{", " ", "g", "r", "e", "e", "t",
    "(", ")", "{", " ", "p", "r", "i", "n", "t", " ", "\"", "h", "i", "\"",
    ";", " ", "}", " ", "}", " ", "c", "l", "a", "s", "s", " ", "B", " ",
    "<", " ", "A", " ", "{", "}", " ", "B", "(", ")", ".", "g", "r", "e",
    "e", "t", "(", ")", ";">>

\*   print 1 + "x";
ProgTypeError ==
  <<"p", "r", "i", "n", "t", " ", "1", " ", "+", " ", "\"", "x", "\"", ";">>

\*   var a = 1 var b = 2;
ProgMissingSemicolon ==
  <<"v", "a", "r", " ", "a", " ", "=", " ", "1", " ", "v", "a", "r", " ",
    "b", " ", "=", " ", "2", ";">>

\*   print 1;
\*   @ print nil + 1;
ProgScanError ==
  <<"p", "r", "i", "n", "t", " ", "1", ";", "\n", "@", " ", "p", "r", "i",
    "n", "t", " ", "n", "i", "l", " ", "+", " ", "1", ";">>

\*   print 1;
\*   print nil + 1; print ;
ProgParseError ==
  <<"p", "r", "i", "n", "t", " ", "1", ";", "\n", "p", "r", "i", "n", "t",
    " ", "n", "i", "l", " ", "+", " ", "1", ";", " ", "p", "r", "i", "n",
    "t", " ", ";">>

\*   print 1;
\*   print nil + 1;
\*   return;
ProgTopReturn ==
  <<"p", "r", "i", "n", "t", " ", "1", ";", "\n", "p", "r", "i", "n", "t",
    " ", "n", "i", "l", " ", "+", " ", "1", ";", "\n", "r", "e", "t", "u",
    "r", "n", ";">>

\*   { print "a"; } fun g() { { return "b"; } }
\*   fun f() { { print g();
\*   print -nil; } }
\*   { f(); }
\*   print "c";
ProgNestedError ==
  <<"{", " ", "p", "r", "i", "n", "t", " ", "\"", "a", "\"", ";", " ", "}",
    " ", "f", "u", "n", " ", "g", "(", ")", " ", "{", " ", "{", " ", "r",
    "e", "t", "u", "r", "n", " ", "\"", "b", "\"", ";", " ", "}", " ", "}",
    "\n", "f", "u", "n", " ", "f", "(", ")", " ", "{", " ", "{", " ", "p",
    "r", "i", "n", "t", " ", "g", "(", ")", ";", "\n", "p", "r", "i", "n",
    "t", " ", "-", "n", "i", "l", ";", " ", "}", " ", "}", "\n", "{", " ",
    "f", "(", ")", ";", " ", "}", "\n", "p", "r", "i", "n", "t", " ", "\"",
    "c", "\"", ";">>

\*   fun f(a) { while (true) { if (a) { return 1; } } }
\*   print f(true);
ProgReturnInLoop ==
  <<"f", "u", "n", " ", "f", "(", "a", ")", " ", "{", " ", "w", "h", "i",
    "l", "e", " ", "(", "t", "r", "u", "e", ")", " ", "{", " ", "i", "f",
    " ", "(", "a", ")", " ", "{", " ", "r", "e", "t", "u", "r", "n", " ",
    "1", ";", " ", "}", " ", "}", " ", "}", "\n", "p", "r", "i", "n", "t",
    " ", "f", "(", "t", "r", "u", "e", ")", ";">>

\*   class P { init(x) { this.x = x; return; this.x = 0; } }
\*   class Q { init() { this.a = 1; } }
\*   var p = P(1); print p.x; print p.init(2) == p; print p.x;
\*   var q = Q(); print q.init() == q;
ProgInit ==
  <<"c", "l", "a", "s", "s", " ", "P", " ", "{", " ", "i", "n", "i", "t",
    "(", "x", ")", " ", "{", " ", "t", "h", "i", "s", ".", "x", " ", "=",
    " ", "x", ";", " ", "r", "e", "t", "u", "r", "n", ";", " ", "t", "h",
    "i", "s", ".", "x", " ", "=", " ", "0", ";", " ", "}", " ", "}", "\n",
    "c", "l", "a", "s", "s", " ", "Q", " ", "{", " ", "i", "n", "i", "t",
    "(", ")", " ", "{", " ", "t", "h", "i", "s", ".", "a", " ", "=", " ",
    "1", ";", " ", "}", " ", "}", "\n", "v", "a", "r", " ", "p", " ", "=",
    " ", "P", "(", "1", ")", ";", " ", "p", "r", "i", "n", "t", " ", "p",
    ".", "x", ";", " ", "p", "r", "i", "n", "t", " ", "p", ".", "i", "n",
    "i", "t", "(", "2", ")", " ", "=", "=", " ", "p", ";", " ", "p", "r",
    "i", "n", "t", " ", "p", ".", "x", ";", "\n", "v", "a", "r", " ", "q",
    " ", "=", " ", "Q", "(", ")", ";", " ", "p", "r", "i", "n", "t", " ",
    "q", ".", "i", "n", "i", "t", "(", ")", " ", "=", "=", " ", "q", ";">>

\*   class E {} print E();
ProgNoInit ==
  <<"c", "l", "a", "s", "s", " ", "E", " ", "{", "}", " ", "p", "r", "i",
    "n", "t", " ", "E", "(", ")", ";">>

\*   fun outer() { var x = 1; fun inner() { return x; } return inner; }
\*   var f = outer(); { var x = 2; print f(); }
ProgClosure ==
  <<"f", "u", "n", " ", "o", "u", "t", "e", "r", "(", ")", " ", "{", " ",
    "v", "a", "r", " ", "x", " ", "=", " ", "1", ";", " ", "f", "u", "n",
    " ", "i", "n", "n", "e", "r", "(", ")", " ", "{", " ", "r", "e", "t",
    "u", "r", "n", " ", "x", ";", " ", "}", " ", "r", "e", "t", "u", "r",
    "n", " ", "i", "n", "n", "e", "r", ";", " ", "}", "\n", "v", "a", "r",
    " ", "f", " ", "=", " ", "o", "u", "t", "e", "r", "(", ")", ";", " ",
    "{", " ", "v", "a", "r", " ", "x", " ", "=", " ", "2", ";", " ", "p",
    "r", "i", "n", "t", " ", "f", "(", ")", ";", " ", "}">>

\*   fun mk() { var c = 0; fun inc() { c = c + 1; return c; } return inc; }
\*   var a = mk(); var b = mk(); a(); print a(); print b();
ProgCounter ==
  <<"f", "u", "n", " ", "m", "k", "(", ")", " ", "{", " ", "v", "a", "r",
    " ", "c", " ", "=", " ", "0", ";", " ", "f", "u", "n", " ", "i", "n",
    "c", "(", ")", " ", "{", " ", "c", " ", "=", " ", "c", " ", "+", " ",
    "1", ";", " ", "r", "e", "t", "u", "r", "n", " ", "c", ";", " ", "}",
    " ", "r", "e", "t", "u", "r", "n", " ", "i", "n", "c", ";", " ", "}",
    "\n", "v", "a", "r", " ", "a", " ", "=", " ", "m", "k", "(", ")", ";",
    " ", "v", "a", "r", " ", "b", " ", "=", " ", "m", "k", "(", ")", ";",
    " ", "a", "(", ")", ";", " ", "p", "r", "i", "n", "t", " ", "a", "(",
    ")", ";", " ", "p", "r", "i", "n", "t", " ", "b", "(", ")", ";">>

\*   class C { m() { return this; } }
\*   var i = C(); var j = C(); var f = i.m; var g = j.m; j.f = f;
\*   print f() == i; print j.f() == i; print g() == j;
ProgBound ==
  <<"c", "l", "a", "s", "s", " ", "C", " ", "{", " ", "m", "(", ")", " ",
    "{", " ", "r", "e", "t", "u", "r", "n", " ", "t", "h", "i", "s", ";",
    " ", "}", " ", "}", "\n", "v", "a", "r", " ", "i", " ", "=", " ", "C",
    "(", ")", ";", " ", "v", "a", "r", " ", "j", " ", "=", " ", "C", "(",
    ")", ";", " ", "v", "a", "r", " ", "f", " ", "=", " ", "i", ".", "m",
    ";", " ", "v", "a", "r", " ", "g", " ", "=", " ", "j", ".", "m", ";",
    " ", "j", ".", "f", " ", "=", " ", "f", ";", "\n", "p", "r", "i", "n",
    "t", " ", "f", "(", ")", " ", "=", "=", " ", "i", ";", " ", "p", "r",
    "i", "n", "t", " ", "j", ".", "f", "(", ")", " ", "=", "=", " ", "i",
    ";", " ", "p", "r", "i", "n", "t", " ", "g", "(", ")", " ", "=", "=",
    " ", "j", ";">>

\*   class A { m() { print "A"; } }
\*   class B < A { m() { super.m(); print "B"; } }
\*   B().m();
ProgSuper ==
  <<"c", "l", "a", "s", "s", " ", "A", " ", "{", " ", "m", "(", ")", " ",
    "{", " ", "p", "r", "i", "n", "t", " ", "\"", "A", "\"", ";", " ", "}",
    " ", "}", "\n", "c", "l", "a", "s", "s", " ", "B", " ", "<", " ", "A",
    " ", "{", " ", "m", "(", ")", " ", "{", " ", "s", "u", "p", "e", "r",
    ".", "m", "(", ")", ";", " ", "p", "r", "i", "n", "t", " ", "\"", "B",
    "\"", ";", " ", "}", " ", "}", "\n", "B", "(", ")", ".", "m", "(", ")",
    ";">>

\*   print clock() >= 0;
ProgClock ==
  <<"p", "r", "i", "n", "t", " ", "c", "l", "o", "c", "k", "(", ")", " ",
    ">", "=", " ", "0", ";">>

\*   { var a = 1; var a = 2; }
ProgRedeclare ==
  <<"{", " ", "v", "a", "r", " ", "a", " ", "=", " ", "1", ";", " ", "v",
    "a", "r", " ", "a", " ", "=", " ", "2", ";", " ", "}">>

\*   { var a = a; }
ProgOwnInit ==
  <<"{", " ", "v", "a", "r", " ", "a", " ", "=", " ", "a", ";", " ", "}">>

\*   print this;
ProgThisOutside ==
  <<"p", "r", "i", "n", "t", " ", "t", "h", "i", "s", ";">>

\*   class A { init() { return 1; } }
ProgInitValue ==
  <<"c", "l", "a", "s", "s", " ", "A", " ", "{", " ", "i", "n", "i", "t",
    "(", ")", " ", "{", " ", "r", "e", "t", "u", "r", "n", " ", "1", ";",
    " ", "}", " ", "}">>

\*   class A { m() { fun g() { return 2; } return g() + 1; } }
\*   print A().m();
ProgMethodReturn ==
  <<"c", "l", "a", "s", "s", " ", "A", " ", "{", " ", "m", "(", ")", " ",
    "{", " ", "f", "u", "n", " ", "g", "(", ")", " ", "{", " ", "r", "e",
    "t", "u", "r", "n", " ", "2", ";", " ", "}", " ", "r", "e", "t", "u",
    "r", "n", " ", "g", "(", ")", " ", "+", " ", "1", ";", " ", "}", " ",
    "}", "\n", "p", "r", "i", "n", "t", " ", "A", "(", ")", ".", "m", "(",
    ")", ";">>

\*   class A { m() { return "Am"; } n() { return "An"; } }
\*   class B < A { m() { return "Bm"; } }
\*   var b = B();
\*   print b.m();
\*   print b.n();
\*   print b.m == b.m;
\*   b.n = "fn"; b.m = "fm";
\*   print b.n; print b.m;
\*   print b.x;
ProgGet ==
  <<"c", "l", "a", "s", "s", " ", "A", " ", "{", " ", "m", "(", ")", " ",
    "{", " ", "r", "e", "t", "u", "r", "n", " ", "\"", "A", "m", "\"", ";",
    " ", "}", " ", "n", "(", ")", " ", "{", " ", "r", "e", "t", "u", "r",
    "n", " ", "\"", "A", "n", "\"", ";", " ", "}", " ", "}", "\n", "c",
    "l", "a", "s", "s", " ", "B", " ", "<", " ", "A", " ", "{", " ", "m",
    "(", ")", " ", "{", " ", "r", "e", "t", "u", "r", "n", " ", "\"", "B",
    "m", "\"", ";", " ", "}", " ", "}", "\n", "v", "a", "r", " ", "b", " ",
    "=", " ", "B", "(", ")", ";", "\n", "p", "r", "i", "n", "t", " ", "b",
    ".", "m", "(", ")", ";", "\n", "p", "r", "i", "n", "t", " ", "b", ".",
    "n", "(", ")", ";", "\n", "p", "r", "i", "n", "t", " ", "b", ".", "m",
    " ", "=", "=", " ", "b", ".", "m", ";", "\n", "b", ".", "n", " ", "=",
    " ", "\"", "f", "n", "\"", ";", " ", "b", ".", "m", " ", "=", " ",
    "\"", "f", "m", "\"", ";", "\n", "p", "r", "i", "n", "t", " ", "b",
    ".", "n", ";", " ", "p", "r", "i", "n", "t", " ", "b", ".", "m", ";",
    "\n", "p", "r", "i", "n", "t", " ", "b", ".", "x", ";">>

\*   class Z { w() { print "Z.w"; } }
\*   class A < Z { m() { print "A.m"; return this; } }
\*   class B < A { m() { print "B.m"; } w() { print "B.w"; }
\*     t() { return super.m(); } v() { super.w(); } u() { return super.x; } }
\*   class C < B { m() { print "C.m"; } w() { print "C.w"; } x() {} }
\*   var c = C();
\*   print c.t() == c;
\*   c.v();
\*   c.u();
ProgSuperChain ==
  <<"c", "l", "a", "s", "s", " ", "Z", " ", "{", " ", "w", "(", ")", " ",
    "{", " ", "p", "r", "i", "n", "t", " ", "\"", "Z", ".", "w", "\"", ";",
    " ", "}", " ", "}", "\n", "c", "l", "a", "s", "s", " ", "A", " ", "<",
    " ", "Z", " ", "{", " ", "m", "(", ")", " ", "{", " ", "p", "r", "i",
    "n", "t", " ", "\"", "A", ".", "m", "\"", ";", " ", "r", "e", "t", "u",
    "r", "n", " ", "t", "h", "i", "s", ";", " ", "}", " ", "}", "\n", "c",
    "l", "a", "s", "s", " ", "B", " ", "<", " ", "A", " ", "{", " ", "m",
    "(", ")", " ", "{", " ", "p", "r", "i", "n", "t", " ", "\"", "B", ".",
    "m", "\"", ";", " ", "}", " ", "w", "(", ")", " ", "{", " ", "p", "r",
    "i", "n", "t", " ", "\"", "B", ".", "w", "\"", ";", " ", "}", "\n",
    " ", " ", "t", "(", ")", " ", "{", " ", "r", "e", "t", "u", "r", "n",
    " ", "s", "u", "p", "e", "r", ".", "m", "(", ")", ";", " ", "}", " ",
    "v", "(", ")", " ", "{", " ", "s", "u", "p", "e", "r", ".", "w", "(",
    ")", ";", " ", "}", " ", "u", "(", ")", " ", "{", " ", "r", "e", "t",
    "u", "r", "n", " ", "s", "u", "p", "e", "r", ".", "x", ";", " ", "}",
    " ", "}", "\n", "c", "l", "a", "s", "s", " ", "C", " ", "<", " ", "B",
    " ", "{", " ", "m", "(", ")", " ", "{", " ", "p", "r", "i", "n", "t",
    " ", "\"", "C", ".", "m", "\"", ";", " ", "}", " ", "w", "(", ")", " ",
    "{", " ", "p", "r", "i", "n", "t", " ", "\"", "C", ".", "w", "\"", ";",
    " ", "}", " ", "x", "(", ")", " ", "{", "}", " ", "}", "\n", "v", "a",
    "r", " ", "c", " ", "=", " ", "C", "(", ")", ";", "\n", "p", "r", "i",
    "n", "t", " ", "c", ".", "t", "(", ")", " ", "=", "=", " ", "c", ";",
    "\n", "c", ".", "v", "(", ")", ";", "\n", "c", ".", "u", "(", ")", ";">>

\*   return;
\*   { return 1; }
\*   if (true) return; else return 2;
\*   while (false) return;
\*   fun f() { if (true) { return 1; } return; }
\*   return;
\*   class A { init() { return; } }
\*   class B { init() { while (true) return 1; } m() { return 2; } }
\*   class C { init() { fun g() { return 3; } return; } }
\*   return 4;
ProgReturns ==
  <<"r", "e", "t", "u", "r", "n", ";", "\n", "{", " ", "r", "e", "t", "u",
    "r", "n", " ", "1", ";", " ", "}", "\n", "i", "f", " ", "(", "t", "r",
    "u", "e", ")", " ", "r", "e", "t", "u", "r", "n", ";", " ", "e", "l",
    "s", "e", " ", "r", "e", "t", "u", "r", "n", " ", "2", ";", "\n", "w",
    "h", "i", "l", "e", " ", "(", "f", "a", "l", "s", "e", ")", " ", "r",
    "e", "t", "u", "r", "n", ";", "\n", "f", "u", "n", " ", "f", "(", ")",
    " ", "{", " ", "i", "f", " ", "(", "t", "r", "u", "e", ")", " ", "{",
    " ", "r", "e", "t", "u", "r", "n", " ", "1", ";", " ", "}", " ", "r",
    "e", "t", "u", "r", "n", ";", " ", "}", "\n", "r", "e", "t", "u", "r",
    "n", ";", "\n", "c", "l", "a", "s", "s", " ", "A", " ", "{", " ", "i",
    "n", "i", "t", "(", ")", " ", "{", " ", "r", "e", "t", "u", "r", "n",
    ";", " ", "}", " ", "}", "\n", "c", "l", "a", "s", "s", " ", "B", " ",
    "{", " ", "i", "n", "i", "t", "(", ")", " ", "{", " ", "w", "h", "i",
    "l", "e", " ", "(", "t", "r", "u", "e", ")", " ", "r", "e", "t", "u",
    "r", "n", " ", "1", ";", " ", "}", " ", "m", "(", ")", " ", "{", " ",
    "r", "e", "t", "u", "r", "n", " ", "2", ";", " ", "}", " ", "}", "\n",
    "c", "l", "a", "s", "s", " ", "C", " ", "{", " ", "i", "n", "i", "t",
    "(", ")", " ", "{", " ", "f", "u", "n", " ", "g", "(", ")", " ", "{",
    " ", "r", "e", "t", "u", "r", "n", " ", "3", ";", " ", "}", " ", "r",
    "e", "t", "u", "r", "n", ";", " ", "}", " ", "}", "\n", "r", "e", "t",
    "u", "r", "n", " ", "4", ";">>

\*   var a; var a; fun a() {} class a {}
\*   { var b; var b; { var b; } fun b() {} class b {} }
\*   fun f(p, p) { var p; var q; { var q; var p; } }
\*   class K { m(x) { var x; } n(y) { var y2; } }
\*   { var c; { var c; } var d; }
\*   fun g(z) { fun z() {} }
ProgRedeclarations ==
  <<"v", "a", "r", " ", "a", ";", " ", "v", "a", "r", " ", "a", ";", " ",
    "f", "u", "n", " ", "a", "(", ")", " ", "{", "}", " ", "c", "l", "a",
    "s", "s", " ", "a", " ", "{", "}", "\n", "{", " ", "v", "a", "r", " ",
    "b", ";", " ", "v", "a", "r", " ", "b", ";", " ", "{", " ", "v", "a",
    "r", " ", "b", ";", " ", "}", " ", "f", "u", "n", " ", "b", "(", ")",
    " ", "{", "}", " ", "c", "l", "a", "s", "s", " ", "b", " ", "{", "}",
    " ", "}", "\n", "f", "u", "n", " ", "f", "(", "p", ",", " ", "p", ")",
    " ", "{", " ", "v", "a", "r", " ", "p", ";", " ", "v", "a", "r", " ",
    "q", ";", " ", "{", " ", "v", "a", "r", " ", "q", ";", " ", "v", "a",
    "r", " ", "p", ";", " ", "}", " ", "}", "\n", "c", "l", "a", "s", "s",
    " ", "K", " ", "{", " ", "m", "(", "x", ")", " ", "{", " ", "v", "a",
    "r", " ", "x", ";", " ", "}", " ", "n", "(", "y", ")", " ", "{", " ",
    "v", "a", "r", " ", "y", "2", ";", " ", "}", " ", "}", "\n", "{", " ",
    "v", "a", "r", " ", "c", ";", " ", "{", " ", "v", "a", "r", " ", "c",
    ";", " ", "}", " ", "v", "a", "r", " ", "d", ";", " ", "}", "\n", "f",
    "u", "n", " ", "g", "(", "z", ")", " ", "{", " ", "f", "u", "n", " ",
    "z", "(", ")", " ", "{", "}", " ", "}">>

\*   var g = 1;
\*   class A { m() { return this; } }
\*   class B < A {
\*     m(p) {
\*       var t = p;
\*       {
\*         var p = t;
\*         p = g;
\*         fun h() { t = p; return this; }
\*         h();
\*       }
\*       return super.m();
\*     }
\*   }
\*   {
\*     var x = 2;
\*     { var y = x; { print x + y + g; x = y; } }
\*   }
\*   print B().m(3);
ProgScopes ==
  <<"v", "a", "r", " ", "g", " ", "=", " ", "1", ";", "\n", "c", "l", "a",
    "s", "s", " ", "A", " ", "{", " ", "m", "(", ")", " ", "{", " ", "r",
    "e", "t", "u", "r", "n", " ", "t", "h", "i", "s", ";", " ", "}", " ",
    "}", "\n", "c", "l", "a", "s", "s", " ", "B", " ", "<", " ", "A", " ",
    "{", "\n", " ", " ", "m", "(", "p", ")", " ", "{", "\n", " ", " ", " ",
    " ", "v", "a", "r", " ", "t", " ", "=", " ", "p", ";", "\n", " ", " ",
    " ", " ", "{", "\n", " ", " ", " ", " ", " ", " ", "v", "a", "r", " ",
    "p", " ", "=", " ", "t", ";", "\n", " ", " ", " ", " ", " ", " ", "p",
    " ", "=", " ", "g", ";", "\n", " ", " ", " ", " ", " ", " ", "f", "u",
    "n", " ", "h", "(", ")", " ", "{", " ", "t", " ", "=", " ", "p", ";",
    " ", "r", "e", "t", "u", "r", "n", " ", "t", "h", "i", "s", ";", " ",
    "}", "\n", " ", " ", " ", " ", " ", " ", "h", "(", ")", ";", "\n", " ",
    " ", " ", " ", "}", "\n", " ", " ", " ", " ", "r", "e", "t", "u", "r",
    "n", " ", "s", "u", "p", "e", "r", ".", "m", "(", ")", ";", "\n", " ",
    " ", "}", "\n", "}", "\n", "{", "\n", " ", " ", "v", "a", "r", " ",
    "x", " ", "=", " ", "2", ";", "\n", " ", " ", "{", " ", "v", "a", "r",
    " ", "y", " ", "=", " ", "x", ";", " ", "{", " ", "p", "r", "i", "n",
    "t", " ", "x", " ", "+", " ", "y", " ", "+", " ", "g", ";", " ", "x",
    " ", "=", " ", "y", ";", " ", "}", " ", "}", "\n", "}", "\n", "p", "r",
    "i", "n", "t", " ", "B", "(", ")", ".", "m", "(", "3", ")", ";">>

\*   fun r(n) { var l = n * 10; if (n > 0) r(n - 1); print n; print l; }
\*   r(2);
\*   fun s(a, b) { print a; print b; a = 9; var c = a; }
\*   s(1, 2); s(3, 4);
\*   fun q() { print y; }
\*   fun c() { var y = 1; { var z = 2; q(); } }
\*   c();
ProgFrames ==
  <<"f", "u", "n", " ", "r", "(", "n", ")", " ", "{", " ", "v", "a", "r",
    " ", "l", " ", "=", " ", "n", " ", "*", " ", "1", "0", ";", " ", "i",
    "f", " ", "(", "n", " ", ">", " ", "0", ")", " ", "r", "(", "n", " ",
    "-", " ", "1", ")", ";", " ", "p", "r", "i", "n", "t", " ", "n", ";",
    " ", "p", "r", "i", "n", "t", " ", "l", ";", " ", "}", "\n", "r", "(",
    "2", ")", ";", "\n", "f", "u", "n", " ", "s", "(", "a", ",", " ", "b",
    ")", " ", "{", " ", "p", "r", "i", "n", "t", " ", "a", ";", " ", "p",
    "r", "i", "n", "t", " ", "b", ";", " ", "a", " ", "=", " ", "9", ";",
    " ", "v", "a", "r", " ", "c", " ", "=", " ", "a", ";", " ", "}", "\n",
    "s", "(", "1", ",", " ", "2", ")", ";", " ", "s", "(", "3", ",", " ",
    "4", ")", ";", "\n", "f", "u", "n", " ", "q", "(", ")", " ", "{", " ",
    "p", "r", "i", "n", "t", " ", "y", ";", " ", "}", "\n", "f", "u", "n",
    " ", "c", "(", ")", " ", "{", " ", "v", "a", "r", " ", "y", " ", "=",
    " ", "1", ";", " ", "{", " ", "v", "a", "r", " ", "z", " ", "=", " ",
    "2", ";", " ", "q", "(", ")", ";", " ", "}", " ", "}", "\n", "c", "(",
    ")", ";">>

\* A binary expression whose operands are calls with side effects: l
\* returns nil and s a string, r returns a number, and e raises a runtime
\* error of its own; every one prints its name first.
\*   var a = 0;
\*   fun l() { print "L"; return nil; }
\*   fun s() { print "S"; return "s"; }
\*   fun r() { print "R"; a = a + 1; return 1; }
\*   fun e() { print "E"; a = a + 1; return -nil; }
\*   print <left>() <operator> <right>();
OperandsHead ==
  <<"v", "a", "r", " ", "a", " ", "=", " ", "0", ";", "\n", "f", "u", "n",
    " ", "l", "(", ")", " ", "{", " ", "p", "r", "i", "n", "t", " ", "\"",
    "L", "\"", ";", " ", "r", "e", "t", "u", "r", "n", " ", "n", "i", "l",
    ";", " ", "}", "\n", "f", "u", "n", " ", "s", "(", ")", " ", "{", " ",
    "p", "r", "i", "n", "t", " ", "\"", "S", "\"", ";", " ", "r", "e", "t",
    "u", "r", "n", " ", "\"", "s", "\"", ";", " ", "}", "\n", "f", "u",
    "n", " ", "r", "(", ")", " ", "{", " ", "p", "r", "i", "n", "t", " ",
    "\"", "R", "\"", ";", " ", "a", " ", "=", " ", "a", " ", "+", " ", "1",
    ";", " ", "r", "e", "t", "u", "r", "n", " ", "1", ";", " ", "}", "\n",
    "f", "u", "n", " ", "e", "(", ")", " ", "{", " ", "p", "r", "i", "n",
    "t", " ", "\"", "E", "\"", ";", " ", "a", " ", "=", " ", "a", " ", "+",
    " ", "1", ";", " ", "r", "e", "t", "u", "r", "n", " ", "-", "n", "i",
    "l", ";", " ", "}", "\n", "p", "r", "i", "n", "t", " ">>

TypeCheckedOperators ==
  {<<"-">>, <<"+">>, <<"/">>, <<"*">>, <<">">>, <<">", "=">>, <<"<">>,
   <<"<", "=">>}

LeftOperands == {"l", "s", "e"}
RightOperands == {"r", "e"}

ProgOperands(left, operator, right) ==
  OperandsHead \o <<left, "(", ")", " ">> \o operator
    \o <<" ", right, "(", ")", ";">>

OperandPrograms ==
  {ProgOperands(left, operator, right) :
     left \in LeftOperands, operator \in TypeCheckedOperators,
     right \in RightOperands}

\* A call whose callee and arguments are calls with side effects: n returns
\* nil, g the function f of two parameters and k the class K whose init has
\* one; the arguments p and q return numbers and e raises a runtime error
\* of its own; every one prints its name first.
\*   var a = 0;
\*   fun f(x, y) { print "F"; return 1; }
\*   fun n() { print "N"; return nil; }
\*   fun g() { print "G"; return f; }
\*   class K { init(x) { print "I"; } }
\*   fun k() { print "K"; return K; }
\*   fun p() { print "P"; a = a + 1; return 1; }
\*   fun q() { print "Q"; a = a + 1; return 2; }
\*   fun e() { print "E"; a = a + 1; return -nil; }
\*   <callee>()(<argument>(), ...);
CallsHead ==
  <<"v", "a", "r", " ", "a", " ", "=", " ", "0", ";", "\n", "f", "u", "n",
    " ", "f", "(", "x", ",", " ", "y", ")", " ", "{", " ", "p", "r", "i",
    "n", "t", " ", "\"", "F", "\"", ";", " ", "r", "e", "t", "u", "r", "n",
    " ", "1", ";", " ", "}", "\n", "f", "u", "n", " ", "n", "(", ")", " ",
    "{", " ", "p", "r", "i", "n", "t", " ", "\"", "N", "\"", ";", " ", "r",
    "e", "t", "u", "r", "n", " ", "n", "i", "l", ";", " ", "}", "\n", "f",
    "u", "n", " ", "g", "(", ")", " ", "{", " ", "p", "r", "i", "n", "t",
    " ", "\"", "G", "\"", ";", " ", "r", "e", "t", "u", "r", "n", " ", "f",
    ";", " ", "}", "\n", "c", "l", "a", "s", "s", " ", "K", " ", "{", " ",
    "i", "n", "i", "t", "(", "x", ")", " ", "{", " ", "p", "r", "i", "n",
    "t", " ", "\"", "I", "\"", ";", " ", "}", " ", "}", "\n", "f", "u",
    "n", " ", "k", "(", ")", " ", "{", " ", "p", "r", "i", "n", "t", " ",
    "\"", "K", "\"", ";", " ", "r", "e", "t", "u", "r", "n", " ", "K", ";",
    " ", "}", "\n", "f", "u", "n", " ", "p", "(", ")", " ", "{", " ", "p",
    "r", "i", "n", "t", " ", "\"", "P", "\"", ";", " ", "a", " ", "=", " ",
    "a", " ", "+", " ", "1", ";", " ", "r", "e", "t", "u", "r", "n", " ",
    "1", ";", " ", "}", "\n", "f", "u", "n", " ", "q", "(", ")", " ", "{",
    " ", "p", "r", "i", "n", "t", " ", "\"", "Q", "\"", ";", " ", "a", " ",
    "=", " ", "a", " ", "+", " ", "1", ";", " ", "r", "e", "t", "u", "r",
    "n", " ", "2", ";", " ", "}", "\n", "f", "u", "n", " ", "e", "(", ")",
    " ", "{", " ", "p", "r", "i", "n", "t", " ", "\"", "E", "\"", ";", " ",
    "a", " ", "=", " ", "a", " ", "+", " ", "1", ";", " ", "r", "e", "t",
    "u", "r", "n", " ", "-", "n", "i", "l", ";", " ", "}", "\n">>

Callees == {"n", "g", "k"}

ArgumentLists ==
  {<<>>, <<"p">>, <<"p", "q">>, <<"q", "p">>, <<"p", "q", "p">>,
   <<"p", "e", "q">>}

RECURSIVE ArgumentsText(_)
ArgumentsText(letters) ==
  IF letters = <<>> THEN <<>>
  ELSE <<Head(letters), "(", ")">>
         \o (IF Len(letters) > 1 THEN <<",", " ">> ELSE <<>>)
         \o ArgumentsText(Tail(letters))

ProgCalls(callee, letters) ==
  CallsHead \o <<callee, "(", ")", "(">> \o ArgumentsText(letters)
    \o <<")", ";">>

CallPrograms ==
  {ProgCalls(callee, letters) : callee \in Callees, letters \in ArgumentLists}

\* A for loop with or without each of its three clauses, in a function:
\* the body prints n and i and returns when n has reached 2; n is
\* incremented by the increment clause t(), which prints t, or else by the
\* body; i is printed again after the loop and after the call.
\*   var i = 0;
\*   var n = 0;
\*   fun t() { print "t"; n = n + 1; }
\*   fun f() {
\*     for (<initializer>; <condition>; <increment>) {
\*       print n; print i; if (n >= 2) return; <step>
\*     }
\*     print i;
\*   }
\*   f();
\*   print i;
ForHead ==
  <<"v", "a", "r", " ", "i", " ", "=", " ", "0", ";", "\n", "v", "a", "r",
    " ", "n", " ", "=", " ", "0", ";", "\n", "f", "u", "n", " ", "t", "(",
    ")", " ", "{", " ", "p", "r", "i", "n", "t", " ", "\"", "t", "\"", ";",
    " ", "n", " ", "=", " ", "n", " ", "+", " ", "1", ";", " ", "}", "\n",
    "f", "u", "n", " ", "f", "(", ")", " ", "{", "\n", " ", " ", "f", "o",
    "r", " ", "(">>

ForBody ==
  <<")", " ", "{", " ", "p", "r", "i", "n", "t", " ", "n", ";", " ", "p",
    "r", "i", "n", "t", " ", "i", ";", " ", "i", "f", " ", "(", "n", " ",
    ">", "=", " ", "2", ")", " ", "r", "e", "t", "u", "r", "n", ";", " ">>

ForStep ==
  <<"n", " ", "=", " ", "n", " ", "+", " ", "1", ";", " ">>

ForTail ==
  <<"}", " ", "p", "r", "i", "n", "t", " ", "i", ";", " ", "}", "\n", "f",
    "(", ")", ";", "\n", "p", "r", "i", "n", "t", " ", "i", ";">>

\* no initializer, var i = 7, i = 7
ForInitializers ==
  {<<>>, <<"v", "a", "r", " ", "i", " ", "=", " ", "7">>,
   <<"i", " ", "=", " ", "7">>}
\* no condition, n < 1
ForConditions == {<<>>, <<"n", " ", "<", " ", "1">>}
\* no increment, t()
ForIncrements == {<<>>, <<"t", "(", ")">>}

ProgLoop(initializer, condition, increment) ==
  ForHead \o initializer \o <<";", " ">> \o condition \o <<";", " ">>
    \o increment \o ForBody
    \o (IF increment = <<>> THEN ForStep ELSE <<>>) \o ForTail

LoopPrograms ==
  {ProgLoop(initializer, condition, increment) :
     initializer \in ForInitializers, condition \in ForConditions,
     increment \in ForIncrements}

\* A property assignment whose object and value are calls with side
\* effects: o prints o and returns the object; v prints v, increments the
\* global n, writes the field g of the instance k and returns 2.  The value
\* assigned is v() or the property assignment k.h = v().
\*   var n = 0;
\*   class K {}
\*   var k = K();
\*   fun v() { print "v"; n = n + 1; k.g = n; return 2; }
\*   fun o() { print "o"; return <object>; }
\*   print o().x = <value>;
SetHead ==
  <<"v", "a", "r", " ", "n", " ", "=", " ", "0", ";", "\n", "c", "l", "a",
    "s", "s", " ", "K", " ", "{", "}", "\n", "v", "a", "r", " ", "k", " ",
    "=", " ", "K", "(", ")", ";", "\n", "f", "u", "n", " ", "v", "(", ")",
    " ", "{", " ", "p", "r", "i", "n", "t", " ", "\"", "v", "\"", ";", " ",
    "n", " ", "=", " ", "n", " ", "+", " ", "1", ";", " ", "k", ".", "g",
    " ", "=", " ", "n", ";", " ", "r", "e", "t", "u", "r", "n", " ", "2",
    ";", " ", "}", "\n", "f", "u", "n", " ", "o", "(", ")", " ", "{", " ",
    "p", "r", "i", "n", "t", " ", "\"", "o", "\"", ";", " ", "r", "e", "t",
    "u", "r", "n", " ">>

SetMiddle ==
  <<";", " ", "}", "\n", "p", "r", "i", "n", "t", " ", "o", "(", ")", ".",
    "x", " ", "=", " ">>

\* What o returns: nil, a number, a string, a function, a class, the
\* instance k, and the operand error of -nil
SetObjects ==
  {<<"n", "i", "l">>, <<"1">>, <<"\"", "s", "\"">>, <<"o">>, <<"K">>,
   <<"k">>, <<"-", "n", "i", "l">>}

SetValues ==
  {<<"v", "(", ")">>, <<"k", ".", "h", " ", "=", " ", "v", "(", ")">>}

ProgSet(object, value) == SetHead \o object \o SetMiddle \o value \o <<";">>

SetPrograms ==
  {ProgSet(object, value) : object \in SetObjects, value \in SetValues}

Programs ==
  {ProgSum, ProgConcat, ProgFor, ProgFib, ProgInherit,
   ProgTypeError, ProgMissingSemicolon, ProgScanError,
   ProgParseError, ProgTopReturn, ProgNestedError, ProgReturnInLoop,
   ProgInit, ProgNoInit, ProgClosure, ProgCounter, ProgBound,
   ProgSuper, ProgClock, ProgRedeclare, ProgOwnInit,
   ProgThisOutside, ProgInitValue, ProgMethodReturn, ProgGet,
   ProgSuperChain, ProgReturns, ProgRedeclarations, ProgScopes, ProgFrames}
    \cup OperandPrograms \cup CallPrograms \cup LoopPrograms
    \cup SetPrograms

\* END OF INPUT PROGRAMS

(***************************************************************************)
(* The driver (run.ts): runFile(path) calls run(source), which scans,      *)
(* parses, resolves and interprets, returning early when hadError is set.  *)
(***************************************************************************)
Init ==
  /\ source \in Programs
  /\ pc = "scan"
  /\ scanner = ScannerInit
  /\ tokens = <<>>
  /\ parser = ParserInit
  /\ statements = <<>>
  /\ resolver = ResolverInit
  /\ interp = InterpreterInit
  /\ hadError = FALSE
  /\ hadRuntimeError = FALSE
  /\ stderr = <<>>
  /\ stdout = <<>>
  /\ exitCode = -1
  /\ stdin = NoInput

\* One pass of the loop of Scanner.scanTokens
ScanToken ==
  /\ pc = "scan"
  /\ ~scanIsAtEnd(source, scanner)
  /\ LET r == scanToken(source, [scanner EXCEPT !.start = scanner.current]) IN
       /\ scanner' = r.sc
       /\ tokens' = tokens \o r.toks
       /\ stderr' = stderr \o r.errs
       /\ hadError' = (hadError \/ r.errs # <<>>)
  /\ UNCHANGED <<source, pc, parser, statements, resolver, interp,
                 hadRuntimeError, stdout, exitCode, stdin>>

\* scanTokens returning its tokens without the eof token pushed
ScanEndWithoutEof ==
  /\ pc = "scan"
  /\ scanIsAtEnd(source, scanner)
  /\ pc' = IF hadError THEN "returned" ELSE "parse"
  /\ UNCHANGED <<source, scanner, tokens, parser, statements, resolver,
                 interp, hadError, hadRuntimeError, stderr, stdout, exitCode,
                 stdin>>

\* The end of scanTokens, and run()'s "if (hadError) return" after it
ScanEnd ==
  /\ pc = "scan"
  /\ scanIsAtEnd(source, scanner)
  /\ tokens' = Append(tokens, EofToken(scanner.line))
  /\ pc' = IF hadError THEN "returned" ELSE "parse"
  /\ UNCHANGED <<source, scanner, parser, statements, resolver, interp,
                 hadError, hadRuntimeError, stderr, stdout, exitCode, stdin>>

\* One pass of the loop of Parser.parse
\* The loop of Parser.parse as a do-while: a pass is made at eof as well
ParseDeclarationAtEnd ==
  /\ pc = "parse"
  /\ LET d == declaration(tokens, parser)
         stuck == d.p.stuck \/ d.p.current = parser.current
     IN /\ parser' = [d.p EXCEPT !.errs = <<>>, !.stuck = stuck]
        /\ statements' = IF d.node.type = "null" THEN statements
                         ELSE Append(statements, d.node)
        /\ stderr' = stderr \o d.p.errs
        /\ hadError' = (hadError \/ d.p.errs # <<>>)
        /\ pc' = IF stuck THEN "hung" ELSE "parse"
  /\ UNCHANGED <<source, scanner, tokens, resolver, interp, hadRuntimeError,
                 stdout, exitCode, stdin>>

ParseDeclaration ==
  /\ pc = "parse"
  /\ ~isAtEnd(tokens, parser)
  /\ LET d == declaration(tokens, parser)
         stuck == d.p.stuck \/ d.p.current = parser.current
     IN /\ parser' = [d.p EXCEPT !.errs = <<>>, !.stuck = stuck]
        /\ statements' = IF d.node.type = "null" THEN statements
                         ELSE Append(statements, d.node)
        /\ stderr' = stderr \o d.p.errs
        /\ hadError' = (hadError \/ d.p.errs # <<>>)
        /\ pc' = IF stuck THEN "hung" ELSE "parse"
  /\ UNCHANGED <<source, scanner, tokens, resolver, interp, hadRuntimeError,
                 stdout, exitCode, stdin>>

\* The end of Parser.parse, run()'s "if (hadError) return" after it, and
\* new Interpreter(), new Resolver(interpreter)
ParseEnd ==
  /\ pc = "parse"
  /\ isAtEnd(tokens, parser)
  /\ pc' = IF hadError THEN "returned" ELSE "resolve"
  /\ interp' = InterpreterInit
  /\ resolver' = ResolverInit
  /\ UNCHANGED <<source, scanner, tokens, parser, statements, hadError,
                 hadRuntimeError, stderr, stdout, exitCode, stdin>>

\* One pass of the loop of Resolver.resolveStmts(statements)
ResolveStatement ==
  /\ pc = "resolve"
  /\ resolver.next <= Len(statements)
  /\ LET r == resolveStmt([resolver EXCEPT !.locals = interp.locals],
                          statements[resolver.next])
     IN /\ resolver' = [r EXCEPT !.locals = EmptyMap, !.errs = <<>>,
                                 !.next = @ + 1]
        /\ interp' = [interp EXCEPT !.locals = r.locals]
        /\ stderr' = stderr \o r.errs
        /\ hadError' = (hadError \/ r.errs # <<>>)
  /\ UNCHANGED <<source, pc, scanner, tokens, parser, statements,
                 hadRuntimeError, stdout, exitCode, stdin>>

\* The end of resolveStmts with no "if (hadError) return" after it
ResolveEndIgnoringErrors ==
  /\ pc = "resolve"
  /\ resolver.next > Len(statements)
  /\ pc' = "interpret"
  /\ UNCHANGED <<source, scanner, tokens, parser, statements, resolver,
                 interp, hadError, hadRuntimeError, stderr, stdout, exitCode,
                 stdin>>

\* The end of resolveStmts and run()'s "if (hadError) return" after it
ResolveEnd ==
  /\ pc = "resolve"
  /\ resolver.next > Len(statements)
  /\ pc' = IF hadError THEN "returned" ELSE "interpret"
  /\ UNCHANGED <<source, scanner, tokens, parser, statements, resolver,
                 interp, hadError, hadRuntimeError, stderr, stdout, exitCode,
                 stdin>>

\* runtimeError(e): console.error(message, line); hadRuntimeError = true
runtimeError(err) ==
  [kind |-> "runtime", line |-> err.line, where |-> "", message |-> err.message]

\* A pass of the loop of interpret whose catch is inside the loop: the
\* RuntimeError is reported and the loop goes on with the next statement
InterpretStatementCatchingInLoop ==
  /\ pc = "interpret"
  /\ interp.next <= Len(statements)
  /\ \E now \in 0..MaxClock :
       LET r == execute([interp EXCEPT !.now = now], statements[interp.next]) IN
         /\ stdout' = stdout \o r.out
         /\ interp' = [r EXCEPT !.out = <<>>, !.now = 0,
                                !.sig = IF @ = "error" THEN "normal" ELSE @,
                                !.next = IF r.sig \in {"normal", "error"}
                                         THEN @ + 1 ELSE @]
         /\ pc' = CASE r.sig \in {"normal", "error"} -> "interpret"
                    [] r.sig = "fuel" -> "diverged"
                    [] OTHER -> "crashed"
         /\ stderr' = IF r.sig = "error" THEN Append(stderr, runtimeError(r.err))
                      ELSE stderr
         /\ hadRuntimeError' = (hadRuntimeError \/ r.sig = "error")
         /\ exitCode' = IF r.sig \in {"return", "crash"} THEN 1 ELSE exitCode
  /\ UNCHANGED <<source, scanner, tokens, parser, statements, resolver,
                 hadError, stdin>>

\* One pass of the loop of Interpreter.interpret, with its catch: a
\* RuntimeError is reported and ends interpret; anything else is thrown on
\* and ends the process.  Date.now() is an input of the pass.
InterpretStatement ==
  /\ pc = "interpret"
  /\ interp.next <= Len(statements)
  /\ \E now \in 0..MaxClock :
       LET r == execute([interp EXCEPT !.now = now], statements[interp.next]) IN
         /\ stdout' = stdout \o r.out
         /\ interp' = [r EXCEPT !.out = <<>>, !.now = 0,
                                !.next = IF r.sig = "normal" THEN @ + 1 ELSE @]
         /\ pc' = CASE r.sig = "normal" -> "interpret"
                    [] r.sig = "error" -> "returned"
                    [] r.sig = "fuel" -> "diverged"
                    [] OTHER -> "crashed"
         /\ stderr' = IF r.sig = "error" THEN Append(stderr, runtimeError(r.err))
                      ELSE stderr
         /\ hadRuntimeError' = (hadRuntimeError \/ r.sig = "error")
         /\ exitCode' = IF r.sig \in {"return", "crash"} THEN 1 ELSE exitCode
  /\ UNCHANGED <<source, scanner, tokens, parser, statements, resolver,
                 hadError, stdin>>

\* The end of Interpreter.interpret and of run()
InterpretEnd ==
  /\ pc = "interpret"
  /\ interp.next > Len(statements)
  /\ pc' = "returned"
  /\ UNCHANGED <<source, scanner, tokens, parser, statements, resolver,
                 interp, hadError, hadRuntimeError, stderr, stdout, exitCode,
                 stdin>>

\* runFile without "if (hadError) process.exit(65)"
RunFileExitWithoutCompileCheck ==
  /\ pc = "returned"
  /\ exitCode' = IF hadRuntimeError THEN 70 ELSE 0
  /\ pc' = "exited"
  /\ UNCHANGED <<source, scanner, tokens, parser, statements, resolver,
                 interp, hadError, hadRuntimeError, stderr, stdout, stdin>>

\* runFile after run(input)
RunFileExit ==
  /\ pc = "returned"
  /\ exitCode' = IF hadError THEN 65 ELSE IF hadRuntimeError THEN 70 ELSE 0
  /\ pc' = "exited"
  /\ UNCHANGED <<source, scanner, tokens, parser, statements, resolver,
                 interp, hadError, hadRuntimeError, stderr, stdout, stdin>>

Next ==
  \/ ScanToken
  \/ ScanEnd
  \/ ParseDeclaration
  \/ ParseEnd
  \/ ResolveStatement
  \/ ResolveEnd
  \/ InterpretStatement
  \/ InterpretEnd
  \/ RunFileExit

Spec == Init /\ [][Next]_vars

(***************************************************************************)
(* The resolver run twice over the statements of one parse: after          *)
(* resolver.resolveStmts(statements) has returned it is called again, on   *)
(* the same Resolver or on a new Resolver(interpreter), with the same      *)
(* Interpreter.                                                            *)
(***************************************************************************)
ResolveRestart ==
  /\ pc = "resolve"
  /\ resolver.next > Len(statements)
  /\ pc' = "resolve again"
  /\ \E fresh \in BOOLEAN :
       resolver' = IF fresh THEN ResolverInit ELSE [resolver EXCEPT !.next = 1]
  /\ UNCHANGED <<source, scanner, tokens, parser, statements, interp,
                 hadError, hadRuntimeError, stderr, stdout, exitCode, stdin>>

\* One pass of the loop of the second resolveStmts(statements)
ResolveStatementAgain ==
  /\ pc = "resolve again"
  /\ resolver.next <= Len(statements)
  /\ LET r == resolveStmt([resolver EXCEPT !.locals = interp.locals],
                          statements[resolver.next])
     IN /\ resolver' = [r EXCEPT !.locals = EmptyMap, !.errs = <<>>,
                                 !.next = @ + 1]
        /\ interp' = [interp EXCEPT !.locals = r.locals]
        /\ stderr' = stderr \o r.errs
        /\ hadError' = (hadError \/ r.errs # <<>>)
  /\ UNCHANGED <<source, pc, scanner, tokens, parser, statements,
                 hadRuntimeError, stdout, exitCode, stdin>>

NextResolveTwice ==
  \/ ScanToken
  \/ ScanEnd
  \/ ParseDeclaration
  \/ ParseEnd
  \/ ResolveStatement
  \/ ResolveRestart
  \/ ResolveStatementAgain

SpecResolveTwice == Init /\ [][NextResolveTwice]_vars

(***************************************************************************)
(* The parser on its own: new Parser(tokens).parse() for token lists that  *)
(* end with one eof token -- every list of at most MaxTokens tokens of     *)
(* TokenAlphabet, and the sample programs with any one token deleted.      *)
(***************************************************************************)
MaxTokens == 4

TokenAlphabet ==
  {"identifier", "semicolon", "left_brace", "right_brace", "var", "equal",
   "left_paren", "right_paren"}

LexemeOf ==
  [type \in {"left_paren", "right_paren", "left_brace", "right_brace", "comma",
             "dot", "minus", "plus", "semicolon", "star", "slash", "bang",
             "bang_equal", "equal", "equal_equal", "less", "less_equal",
             "greater", "greater_equal", "identifier", "number", "string"} |->
     CASE type = "left_paren" -> "(" [] type = "right_paren" -> ")"
       [] type = "left_brace" -> "{" [] type = "right_brace" -> "}"
       [] type = "comma" -> "," [] type = "dot" -> "." [] type = "minus" -> "-"
       [] type = "plus" -> "+" [] type = "semicolon" -> ";"
       [] type = "star" -> "*" [] type = "slash" -> "/" [] type = "bang" -> "!"
       [] type = "bang_equal" -> "!=" [] type = "equal" -> "="
       [] type = "equal_equal" -> "==" [] type = "less" -> "<"
       [] type = "less_equal" -> "<=" [] type = "greater" -> ">"
       [] type = "greater_equal" -> ">=" [] type = "identifier" -> "a"
       [] type = "number" -> "1" [] OTHER -> "\"s\""]

\* The token the scanner makes of the lexeme of a type, on line 1
TokenOf(type) ==
  [type |-> type,
   lexeme |-> IF type \in DOMAIN LexemeOf THEN LexemeOf[type] ELSE type,
   literal |-> CASE type = "number" -> Num(1) [] type = "string" -> Str("s")
                 [] OTHER -> Undefined,
   line |-> 1]

Tokenize(types) ==
  [i \in 1..(Len(types) + 1) |->
     IF i <= Len(types) THEN TokenOf(types[i]) ELSE EofToken(1)]

Delete(types, i) ==
  [j \in 1..(Len(types) - 1) |-> IF j < i THEN types[j] ELSE types[j + 1]]

\* class a < a { a(a, a) { return this.a; } a() { super.a(a, 1); } }
SampleClass ==
  <<"class", "identifier", "less", "identifier", "left_brace",
    "identifier", "left_paren", "identifier", "comma", "identifier",
    "right_paren", "left_brace", "return", "this", "dot", "identifier",
    "semicolon", "right_brace",
    "identifier", "left_paren", "right_paren", "left_brace", "super", "dot",
    "identifier", "left_paren", "identifier", "comma", "number",
    "right_paren", "semicolon", "right_brace", "right_brace">>

\* for (var a = 1; a < 1; a = a + 1) { print a; } for (;;) a;
SampleFor ==
  <<"for", "left_paren", "var", "identifier", "equal", "number", "semicolon",
    "identifier", "less", "number", "semicolon", "identifier", "equal",
    "identifier", "plus", "number", "right_paren", "left_brace", "print",
    "identifier", "semicolon", "right_brace",
    "for", "left_paren", "semicolon", "semicolon", "right_paren",
    "identifier", "semicolon">>

\* fun a(a) { if (a or !a) return; else while (a.a == nil) a.a = -a * (a); }
SampleFun ==
  <<"fun", "identifier", "left_paren", "identifier", "right_paren",
    "left_brace", "if", "left_paren", "identifier", "or", "bang",
    "identifier", "right_paren", "return", "semicolon", "else", "while",
    "left_paren", "identifier", "dot", "identifier", "equal_equal", "nil",
    "right_paren", "identifier", "dot", "identifier", "equal", "minus",
    "identifier", "star", "left_paren", "identifier", "right_paren",
    "semicolon", "right_brace">>

\* { var a; { a = "s"; } } a + a = a; print a and true;
SampleBlocks ==
  <<"left_brace", "var", "identifier", "semicolon", "left_brace",
    "identifier", "equal", "string", "semicolon", "right_brace",
    "right_brace", "identifier", "plus", "identifier", "equal", "identifier",
    "semicolon", "print", "identifier", "and", "true", "semicolon">>

Samples == {SampleClass, SampleFor, SampleFun, SampleBlocks}

\* The left-hand sides of the sample assignments: a variable, a property, a
\* property of a call, a call, a sum, a number, a grouping, a negation, this
LeftSides ==
  {<<"identifier">>,
   <<"identifier", "dot", "identifier">>,
   <<"identifier", "left_paren", "right_paren", "dot", "identifier">>,
   <<"identifier", "left_paren", "right_paren">>,
   <<"identifier", "plus", "identifier">>,
   <<"number">>,
   <<"left_paren", "identifier", "right_paren">>,
   <<"minus", "identifier">>,
   <<"this">>}

\* L = a = 1; print a;
SampleAssignment(left) ==
  left \o <<"equal", "identifier", "equal", "number", "semicolon",
            "print", "identifier", "semicolon">>

\* { if (a) L = 1; else L = a; } print a;
SampleNestedAssignment(left) ==
  <<"left_brace", "if", "left_paren", "identifier", "right_paren">>
    \o left \o <<"equal", "number", "semicolon", "else">>
    \o left \o <<"equal", "identifier", "semicolon", "right_brace",
                  "print", "identifier", "semicolon">>

AssignmentSamples ==
  {SampleAssignment(left) : left \in LeftSides}
    \cup {SampleNestedAssignment(left) : left \in LeftSides}

TokenInputs ==
  {Tokenize(types) :
     types \in UNION {[1..n -> TokenAlphabet] : n \in 0..MaxTokens}
               \cup Samples \cup AssignmentSamples
               \cup UNION {{Delete(s, i) : i \in 1..Len(s)} : s \in Samples}}

InitParse ==
  /\ source = <<>>
  /\ pc = "parse"
  /\ scanner = ScannerInit
  /\ tokens \in TokenInputs
  /\ parser = ParserInit
  /\ statements = <<>>
  /\ resolver = ResolverInit
  /\ interp = InterpreterInit
  /\ hadError = FALSE
  /\ hadRuntimeError = FALSE
  /\ stderr = <<>>
  /\ stdout = <<>>
  /\ exitCode = -1
  /\ stdin = NoInput

NextParse ==
  \/ ParseDeclaration
  \/ ParseEnd

SpecParse == InitParse /\ [][NextParse]_vars

(***************************************************************************)
(* The scanner on its own: new Scanner(source).scanTokens() for every      *)
(* source of at most MaxSource characters of ScanAlphabet -- a quote, a    *)
(* newline, a letter, a digit, a character of no token, and the two        *)
(* characters of a comment and of the one- or two-character operators.     *)
(***************************************************************************)
MaxSource == 4

ScanAlphabet == {"\"", "\n", "a", "1", "@", "/", "="}

ScanSources == UNION {[1..n -> ScanAlphabet] : n \in 0..MaxSource}

InitScan ==
  /\ source \in ScanSources
  /\ pc = "scan"
  /\ scanner = ScannerInit
  /\ tokens = <<>>
  /\ parser = ParserInit
  /\ statements = <<>>
  /\ resolver = ResolverInit
  /\ interp = InterpreterInit
  /\ hadError = FALSE
  /\ hadRuntimeError = FALSE
  /\ stderr = <<>>
  /\ stdout = <<>>
  /\ exitCode = -1
  /\ stdin = NoInput

NextScan ==
  \/ ScanToken
  \/ ScanEnd

SpecScan == InitScan /\ [][NextScan]_vars

(***************************************************************************)
(* The interactive prompt (run.ts, runPrompt): the "line" handler is       *)
(* called with the lines of process.stdin in turn; it calls run(line),     *)
(* which is the pipeline of run() above on a new Scanner, Parser,          *)
(* Interpreter and Resolver.  The inputs are the lists of at most MaxLines *)
(* lines, each the empty line, a line that runs, or a line with a scanner, *)
(* a parser, a resolver or a runtime error.                                *)
(***************************************************************************)
MaxLines == 3

\*   print 1;
LineGood ==
  <<"p", "r", "i", "n", "t", " ", "1", ";">>

\*   @
LineScanError ==
  <<"@">>

\*   print;
LineParseError ==
  <<"p", "r", "i", "n", "t", ";">>

\*   return;
LineResolveError ==
  <<"r", "e", "t", "u", "r", "n", ";">>

\*   -nil;
LineRuntimeError ==
  <<"-", "n", "i", "l", ";">>

PromptLines ==
  {<<>>, LineGood, LineScanError, LineParseError, LineResolveError,
   LineRuntimeError}

PromptInputs == UNION {[1..n -> PromptLines] : n \in 0..MaxLines}

\* What rl.prompt() writes to process.stdout
PromptText == "> "

\* runPrompt up to the first "line" event: createInterface and rl.prompt()
InitPrompt ==
  /\ stdin \in {[lines |-> lines, read |-> 0] : lines \in PromptInputs}
  /\ source = <<>>
  /\ pc = "prompt"
  /\ scanner = ScannerInit
  /\ tokens = <<>>
  /\ parser = ParserInit
  /\ statements = <<>>
  /\ resolver = ResolverInit
  /\ interp = InterpreterInit
  /\ hadError = FALSE
  /\ hadRuntimeError = FALSE
  /\ stderr = <<>>
  /\ stdout = <<PromptText>>
  /\ exitCode = -1

\* The "line" handler up to run(line): an empty line closes the interface
\* and the handler returns; any other line is handed to run, which starts
\* with new Scanner(source).
ReadLine ==
  /\ pc = "prompt"
  /\ stdin.read < Len(stdin.lines)
  /\ stdin' = [stdin EXCEPT !.read = @ + 1]
  /\ IF stdin.lines[stdin.read + 1] = <<>>
     THEN /\ pc' = "closed"
          /\ UNCHANGED <<source, scanner, tokens, parser, statements,
                         resolver, interp>>
     ELSE /\ pc' = "scan"
          /\ source' = stdin.lines[stdin.read + 1]
          /\ scanner' = ScannerInit
          /\ tokens' = <<>>
          /\ parser' = ParserInit
          /\ statements' = <<>>
          /\ resolver' = ResolverInit
          /\ interp' = InterpreterInit
  /\ UNCHANGED <<hadError, hadRuntimeError, stderr, stdout, exitCode>>

\* The "line" handler after run(line) has returned, with hadError left as
\* run(line) set it
LineDoneWithoutReset ==
  /\ pc = "returned"
  /\ stdout' = Append(stdout, PromptText)
  /\ pc' = "prompt"
  /\ UNCHANGED <<source, scanner, tokens, parser, statements, resolver,
                 interp, hadError, hadRuntimeError, stderr, exitCode, stdin>>

\* The "line" handler after run(line) has returned: hadError = false;
\* rl.prompt()
LineDone ==
  /\ pc = "returned"
  /\ hadError' = FALSE
  /\ stdout' = Append(stdout, PromptText)
  /\ pc' = "prompt"
  /\ UNCHANGED <<source, scanner, tokens, parser, statements, resolver,
                 interp, hadRuntimeError, stderr, exitCode, stdin>>

NextPrompt ==
  \/ ReadLine
  \/ ScanToken
  \/ ScanEnd
  \/ ParseDeclaration
  \/ ParseEnd
  \/ ResolveStatement
  \/ ResolveEnd
  \/ InterpretStatement
  \/ InterpretEnd
  \/ LineDone

SpecPrompt == InitPrompt /\ [][NextPrompt]_vars

(***************************************************************************)
(* A session at the prompt: lines that define a global variable, function  *)
(* or class and lines that use one, each handed to run(line) in turn.      *)
(***************************************************************************)
\*   var a = 1;
LineDefineVar ==
  <<"v", "a", "r", " ", "a", " ", "=", " ", "1", ";">>

\*   fun f() {}
LineDefineFun ==
  <<"f", "u", "n", " ", "f", "(", ")", " ", "{", "}">>

\*   class K {}
LineDefineClass ==
  <<"c", "l", "a", "s", "s", " ", "K", " ", "{", "}">>

\*   print a;
LineUseVar ==
  <<"p", "r", "i", "n", "t", " ", "a", ";">>

\*   print f;
LineUseFun ==
  <<"p", "r", "i", "n", "t", " ", "f", ";">>

\*   print K;
LineUseClass ==
  <<"p", "r", "i", "n", "t", " ", "K", ";">>

SessionLines ==
  {LineDefineVar, LineDefineFun, LineDefineClass,
   LineUseVar, LineUseFun, LineUseClass}

SessionInputs == UNION {[1..n -> SessionLines] : n \in 0..MaxLines}

InitSession ==
  /\ stdin \in {[lines |-> lines, read |-> 0] : lines \in SessionInputs}
  /\ source = <<>>
  /\ pc = "prompt"
  /\ scanner = ScannerInit
  /\ tokens = <<>>
  /\ parser = ParserInit
  /\ statements = <<>>
  /\ resolver = ResolverInit
  /\ interp = InterpreterInit
  /\ hadError = FALSE
  /\ hadRuntimeError = FALSE
  /\ stderr = <<>>
  /\ stdout = <<PromptText>>
  /\ exitCode = -1

SpecSession == InitSession /\ [][NextPrompt]_vars

(***************************************************************************)
(* Properties of the pipeline                                              *)
(***************************************************************************)
\* The reports of one kind ("compile" or "runtime") on stderr, in order
Reports(kind) == SelectSeq(stderr, LAMBDA e : e.kind = kind)

\* The observations made so far by the interpreter
Log == interp.log
Events(ev) == {k \in 1..Len(Log) : Log[k].ev = ev}

IsPrefix(s, t) == Len(s) <= Len(t) /\ SubSeq(t, 1, Len(s)) = s

\* C1: a phase of run() starts only while no error has been reported: every
\* step that enters the parser, the resolver or Interpreter.interpret is
\* taken with hadError unset; so once a compile error is reported nothing is
\* ever printed, no statement is executed and no runtime error is raised.
PhasesStartClean ==
  /\ [][(pc' # pc /\ pc' \in {"parse", "resolve", "interpret"}) => ~hadError]_vars
  /\ [](hadError <=> Reports("compile") # <<>>)
  /\ [](hadError => /\ pc \notin {"interpret", "crashed", "diverged"}
                    /\ stdout = <<>>
                    /\ ~hadRuntimeError
                    /\ Reports("runtime") = <<>>
                    /\ interp.next = 1
                    /\ Log = <<>>)
  /\ []((\E k \in 1..Len(stderr) : stderr[k].where = "" /\ stderr[k].kind = "compile")
          => parser = ParserInit /\ statements = <<>> /\ resolver = ResolverInit)

\* A source whose first statements would print and then fail at runtime, and
\* whose last statement the resolver rejects: run() has returned after the
\* resolver, with nothing printed.
PhasesStartCleanWitness ==
  /\ source = ProgTopReturn
  /\ pc = "returned"
  /\ hadError
  /\ resolver.next > Len(statements)
  /\ Len(statements) = 3

\* C2: when runFile exits, the status is 65 exactly if a compile error was
\* reported, 70 exactly if a runtime error and no compile error was reported,
\* and 0 exactly if nothing was reported; the sources that hold a compile
\* error and a statement failing at runtime exit 65.
ExitCodes ==
  pc = "exited" =>
    /\ (exitCode = 65) <=> (Reports("compile") # <<>>)
    /\ (exitCode = 70) <=> (Reports("runtime") # <<>> /\ Reports("compile") = <<>>)
    /\ (exitCode = 0) <=> (stderr = <<>>)
    /\ source \in {ProgScanError, ProgParseError, ProgTopReturn} => exitCode = 65

ExitCodesWitness ==
  /\ pc = "exited"
  /\ source = ProgParseError
  /\ exitCode = 65

\* C3: a RuntimeError raised inside top-level statement k is reported exactly
\* once, with its message and the line of its token, and sets
\* hadRuntimeError; the step that raises it keeps what was printed before
\* and leaves statement k current; afterwards nothing is executed.
RuntimeErrorEndsInterpret ==
  /\ [](interp.sig = "error" <=> hadRuntimeError)
  /\ [](hadRuntimeError =>
          /\ pc \in {"returned", "exited"}
          /\ interp.next <= Len(statements)
          /\ Reports("runtime") =
               <<[kind |-> "runtime", line |-> interp.err.line, where |-> "",
                  message |-> interp.err.message]>>)
  /\ [][(~hadRuntimeError /\ hadRuntimeError') =>
          /\ IsPrefix(stdout, stdout')
          /\ interp'.next = interp.next
          /\ Len(stderr') = Len(stderr) + 1]_vars
  /\ [][hadRuntimeError =>
          /\ hadRuntimeError'
          /\ UNCHANGED <<interp, stdout, stderr>>]_vars
  /\ []((source = ProgNestedError /\ hadRuntimeError) =>
          /\ stdout = <<"a", "b">>
          /\ interp.err = [line |-> 3, message |-> "Operand must be a number."]
          /\ interp.next = 4)

\* The error is raised two blocks and one call below top-level statement 4,
\* after two lines were printed.
RuntimeErrorEndsInterpretWitness ==
  /\ source = ProgNestedError
  /\ pc = "exited"
  /\ hadRuntimeError
  /\ exitCode = 70
  /\ \E k \in Events("block") : Log[k].how = "error" /\ Log[k].x # 1

\* C4: every executeBlock that has ended, normally or by a Return or a
\* RuntimeError, left Interpreter.environment the frame it found; every call
\* that has ended left the caller's frame current; between top-level
\* statements the current frame is globals.
EnvironmentRestored ==
  /\ \A k \in Events("block") : Log[k].y = Log[k].x
  /\ \A k \in Events("call") : Log[k].y = Log[k].x
  /\ interp.environment = 1

\* Blocks have ended in each of the three ways, in frames other than the
\* one they ran in.
EnvironmentRestoredWitness ==
  /\ \E k \in Events("block") : Log[k].how = "normal" /\ Log[k].z # Log[k].x
  /\ \E k \in Events("block") : Log[k].how = "return" /\ Log[k].z # Log[k].x
  /\ \E k \in Events("block") : Log[k].how = "error" /\ Log[k].z # Log[k].x
  /\ \E k \in Events("call") : Log[k].how = "error"

\* The return statements of a function body: those of its statements that
\* are not inside a nested function or class declaration
RECURSIVE ReturnsOf(_), ReturnsIn(_)
ReturnsIn(stmt) ==
  CASE stmt.type = "return" -> {stmt.id}
    [] stmt.type = "block" -> ReturnsOf(stmt.statements)
    [] stmt.type = "if" ->
         ReturnsIn(stmt.thenBranch) \cup
           (IF stmt.elseBranch.type = "null" THEN {}
            ELSE ReturnsIn(stmt.elseBranch))
    [] stmt.type = "while" -> ReturnsIn(stmt.body)
    [] OTHER -> {}
ReturnsOf(stmts) ==
  IF stmts = <<>> THEN {} ELSE ReturnsIn(Head(stmts)) \cup ReturnsOf(Tail(stmts))

\* C5: no Return signal reaches Interpreter.interpret: a program the
\* resolver admits has no return statement outside a function, and every
\* Return caught by a LoxFunction.call was thrown by a return statement of
\* that function's own body.
ReturnsCaughtByOwnFunction ==
  /\ interp.sig # "return"
  /\ pc \in {"interpret", "crashed", "diverged"} => ReturnsOf(statements) = {}
  /\ \A k \in Events("fncall") :
       Log[k].how = "return" =>
         Log[k].y \in ReturnsOf(interp.funs[Log[k].z].declaration.body)

\* A method and a function declared inside it have both returned through a
\* return statement, each caught by its own call.
ReturnsCaughtByOwnFunctionWitness ==
  /\ source = ProgMethodReturn
  /\ pc = "exited"
  /\ stdout = <<"3">>
  /\ \E j, k \in Events("fncall") :
       /\ Log[j].how = "return" /\ Log[k].how = "return"
       /\ Log[j].y # Log[k].y

\* C6: calling a class returns the instance it has just created, and a call
\* of a function whose isInitializer flag is set returns the instance bound
\* as this in its closure, when the body ends normally and when it executes
\* return; -- in P(1) and in p.init(2), which print 1, true, 2, true.
InitializerReturnsThis ==
  /\ \A k \in Events("new") :
       /\ Log[k].v = Ref("instance", Log[k].y)
       /\ Log[k].y \in 1..Len(interp.instances)
       /\ interp.instances[Log[k].y].klass = Log[k].z
       /\ \A j \in Events("new") : j # k => Log[j].y # Log[k].y
  /\ \A k \in Events("fncall") :
       Log[k].x = 1 =>
         /\ interp.funs[Log[k].z].isInitializer
         /\ Log[k].v.t = "instance"
         /\ Log[k].v =
              mapGet(interp.envs[interp.funs[Log[k].z].closure].values, "this")
  /\ \A k \in Events("fncall") :
       interp.funs[Log[k].z].isInitializer => Log[k].x = 1
  /\ (source = ProgInit /\ pc = "exited") =>
       stdout = <<"1", "true", "2", "true">>

InitializerReturnsThisWitness ==
  /\ source = ProgInit
  /\ pc = "exited"
  /\ \E k \in Events("fncall") : Log[k].x = 1 /\ Log[k].how = "return"
  /\ \E k \in Events("fncall") : Log[k].x = 1 /\ Log[k].how = "normal"
  /\ Cardinality(Events("new")) = 2

\* C7: a function keeps the frame that was current at its declaration, and
\* every call of it runs in a new frame whose parent is that frame, whatever
\* frame the caller is in; so the inner function returned by outer() reads
\* x = 1 from inside a block that declares x = 2, and the two counters made
\* by two calls of mk() count apart.
ClosuresKeepTheirFrame ==
  /\ \A k \in Events("function") : interp.funs[Log[k].z].closure = Log[k].x
  /\ \A k \in Events("frame") :
       /\ interp.envs[Log[k].x].enclosing = interp.funs[Log[k].z].closure
       /\ \A j \in Events("frame") : j # k => Log[j].x # Log[k].x
  /\ (source = ProgClosure /\ pc = "exited") => stdout = <<"1">>
  /\ (source = ProgCounter /\ pc = "exited") => stdout = <<"2", "1">>

\* The inner function has been called from a frame that is not its closure,
\* after the call that declared it had returned.
ClosuresKeepTheirFrameWitness ==
  /\ source = ProgClosure
  /\ pc = "exited"
  /\ \E k \in Events("frame") :
       /\ Log[k].y # interp.funs[Log[k].z].closure
       /\ interp.funs[Log[k].z].closure # 1

\* C8: whenever this is evaluated in an invocation of the callable that
\* i.m produced, its value is i -- also when the callable was first stored
\* in a variable or in a field of another instance.
BoundMethodsKeepThis ==
  /\ \A g \in Events("get") : \A t \in Events("this") :
       Log[t].z = Log[g].z => Log[t].v = Ref("instance", Log[g].x)
  /\ (source = ProgBound /\ pc = "exited") =>
       stdout = <<"true", "true", "true">>

BoundMethodsKeepThisWitness ==
  /\ source = ProgBound
  /\ pc = "exited"
  /\ \E g, h \in Events("get") : \E t, u \in Events("this") :
       /\ Log[g].x # Log[h].x
       /\ g < h /\ h < t
       /\ Log[t].z = Log[g].z
       /\ Log[u].z = Log[h].z


\* C9: while the resolver runs a second time over the same statements, no
\* step changes Interpreter.locals: every expression keeps the depth the
\* first run gave it and no expression gains or loses an entry, so after the
\* second run the side-table is the one the first run left.
ResolverIdempotent ==
  [][pc = "resolve again" => interp'.locals = interp.locals]_vars

\* The second run has ended over statements with local variables at depths
\* 0 and beyond.
ResolverIdempotentWitness ==
  /\ pc = "resolve again"
  /\ resolver.next > Len(statements)
  /\ \E a, b \in DOMAIN interp.locals :
       interp.locals[a] = 0 /\ interp.locals[b] >= 1

(***************************************************************************)
(* The well-formed programs: the token lists the grammar of Lox derives.   *)
(* Each nonterminal maps a set S of start positions to the set of          *)
(* positions where a phrase started in S can end (XEnds for the           *)
(* nonterminal X).                                                         *)
(***************************************************************************)
\* The positions past a token of one of the types, read at a position of S
Past(toks, S, types) == {i + 1 : i \in {j \in S : toks[j].type \in types}}

\* The binary operators of all levels: precedence decides the shape of the
\* tree, not which token lists are derived, so the ladder from logic_or down
\* to factor derives unary (operator unary)*
BinaryOps ==
  {"slash", "star", "minus", "plus", "greater", "greater_equal", "less",
   "less_equal", "bang_equal", "equal_equal", "and", "or"}

RECURSIVE ExpressionEnds(_, _), PrimaryEnds(_, _), SuffixesEnds(_, _), ArgumentsTailEnds(_, _),
          UnaryEnds(_, _), ChainEnds(_, _), StatementEnds(_, _),
          DeclarationEnds(_, _), DeclarationsEnds(_, _), BlockEnds(_, _), FunctionEnds(_, _),
          FunctionsEnds(_, _), ParametersTailEnds(_, _), VarDeclEnds(_, _)

PrimaryEnds(toks, S) ==
  Past(toks, S, {"true", "false", "nil", "this", "number", "string", "identifier"})
    \cup Past(toks, ExpressionEnds(toks, Past(toks, S, {"left_paren"})), {"right_paren"})
    \cup Past(toks, Past(toks, Past(toks, S, {"super"}), {"dot"}), {"identifier"})

ArgumentsTailEnds(toks, S) ==
  IF S = {} THEN {}
  ELSE S \cup ArgumentsTailEnds(toks, ExpressionEnds(toks, Past(toks, S, {"comma"})))

SuffixesEnds(toks, S) ==
  IF S = {} THEN {}
  ELSE LET open == Past(toks, S, {"left_paren"})
           args == open \cup ArgumentsTailEnds(toks, ExpressionEnds(toks, open))
       IN S \cup SuffixesEnds(toks, Past(toks, args, {"right_paren"})
                                  \cup Past(toks, Past(toks, S, {"dot"}), {"identifier"}))

CallEnds(toks, S) == SuffixesEnds(toks, PrimaryEnds(toks, S))

UnaryEnds(toks, S) ==
  IF S = {} THEN {}
  ELSE CallEnds(toks, S) \cup UnaryEnds(toks, Past(toks, S, {"bang", "minus"}))

ChainEnds(toks, S) ==
  IF S = {} THEN {}
  ELSE S \cup ChainEnds(toks, UnaryEnds(toks, Past(toks, S, BinaryOps)))

AssignmentTargetEnds(toks, S) ==
  Past(toks, S, {"identifier"})
    \cup Past(toks, Past(toks, CallEnds(toks, S), {"dot"}), {"identifier"})

ExpressionEnds(toks, S) ==
  IF S = {} THEN {}
  ELSE ChainEnds(toks, UnaryEnds(toks, S))
         \cup ExpressionEnds(toks, Past(toks, AssignmentTargetEnds(toks, S), {"equal"}))

ExprStmtEnds(toks, S) == Past(toks, ExpressionEnds(toks, S), {"semicolon"})

VarDeclEnds(toks, S) ==
  LET name == Past(toks, Past(toks, S, {"var"}), {"identifier"})
  IN Past(toks, name \cup ExpressionEnds(toks, Past(toks, name, {"equal"})), {"semicolon"})

ConditionEnds(toks, S) ==
  Past(toks, ExpressionEnds(toks, Past(toks, S, {"left_paren"})), {"right_paren"})

ForClausesEnds(toks, S) ==
  LET open == Past(toks, S, {"left_paren"})
      init == VarDeclEnds(toks, open) \cup ExprStmtEnds(toks, open)
                \cup Past(toks, open, {"semicolon"})
      cond == Past(toks, init \cup ExpressionEnds(toks, init), {"semicolon"})
  IN Past(toks, cond \cup ExpressionEnds(toks, cond), {"right_paren"})

StatementEnds(toks, S) ==
  IF S = {} THEN {}
  ELSE LET then == StatementEnds(toks, ConditionEnds(toks, Past(toks, S, {"if"})))
           return == Past(toks, S, {"return"})
       IN ExprStmtEnds(toks, S)
            \cup StatementEnds(toks, ForClausesEnds(toks, Past(toks, S, {"for"})))
            \cup then \cup StatementEnds(toks, Past(toks, then, {"else"}))
            \cup ExprStmtEnds(toks, Past(toks, S, {"print"}))
            \cup Past(toks, return \cup ExpressionEnds(toks, return), {"semicolon"})
            \cup StatementEnds(toks, ConditionEnds(toks, Past(toks, S, {"while"})))
            \cup BlockEnds(toks, S)

BlockEnds(toks, S) ==
  Past(toks, DeclarationsEnds(toks, Past(toks, S, {"left_brace"})), {"right_brace"})

ParametersTailEnds(toks, S) ==
  IF S = {} THEN {}
  ELSE S \cup ParametersTailEnds(toks, Past(toks, Past(toks, S, {"comma"}), {"identifier"}))

FunctionEnds(toks, S) ==
  LET open == Past(toks, Past(toks, S, {"identifier"}), {"left_paren"})
      params == open \cup ParametersTailEnds(toks, Past(toks, open, {"identifier"}))
  IN BlockEnds(toks, Past(toks, params, {"right_paren"}))

FunctionsEnds(toks, S) ==
  IF S = {} THEN {} ELSE S \cup FunctionsEnds(toks, FunctionEnds(toks, S))

ClassDeclEnds(toks, S) ==
  LET name == Past(toks, Past(toks, S, {"class"}), {"identifier"})
      head == name \cup Past(toks, Past(toks, name, {"less"}), {"identifier"})
  IN Past(toks, FunctionsEnds(toks, Past(toks, head, {"left_brace"})), {"right_brace"})

DeclarationEnds(toks, S) ==
  IF S = {} THEN {}
  ELSE ClassDeclEnds(toks, S) \cup FunctionEnds(toks, Past(toks, S, {"fun"}))
         \cup VarDeclEnds(toks, S) \cup StatementEnds(toks, S)

DeclarationsEnds(toks, S) ==
  IF S = {} THEN {} ELSE S \cup DeclarationsEnds(toks, DeclarationEnds(toks, S))

\* program -> declaration* EOF
WellFormed(toks) == Len(toks) \in DeclarationsEnds(toks, {1})

\* C10: for every token list ending with one eof token, parse() ends and
\* returns its statements: every pass of its loop, and of the loop of
\* block(), consumes a token (so there are at most as many passes as
\* tokens), current never passes the eof token, and the loop is left at eof;
\* and a list that is not a well-formed program has produced an error
\* report when parse() returns.
ParserTotal ==
  /\ [](/\ pc # "hung"
        /\ ~parser.stuck
        /\ parser.current < Len(tokens)
        /\ Len(statements) <= parser.current)
  /\ [][(pc = "parse" /\ pc' = "parse") => parser'.current > parser.current]_vars
  /\ [][(pc = "parse" /\ pc' # "parse") =>
          (isAtEnd(tokens, parser) /\ pc' \in {"resolve", "returned"})]_vars
  /\ []((pc # "parse" /\ ~WellFormed(tokens)) =>
          (pc = "returned" /\ hadError /\ Reports("compile") # <<>>))

\* An ill-formed list whose error is raised inside a block inside a
\* function, with tokens left after the recovery: parse() has returned.
ParserTotalWitness ==
  /\ pc = "returned"
  /\ Len(tokens) > 20
  /\ ~WellFormed(tokens)
  /\ Len(stderr) >= 2

(***************************************************************************)
(* Properties of the scanner                                               *)
(***************************************************************************)
\* The line of position i of the text (0-based position, 1-based line): one
\* more than the number of newline characters before it.
RECURSIVE LineOf(_, _)
LineOf(src, i) ==
  IF i <= 0 THEN 1
  ELSE LineOf(src, i - 1) + (IF charAt(src, i - 1) = "\n" THEN 1 ELSE 0)

\* A character that starts no token, no comment and no white space
Unexpected(c) ==
  /\ c \notin DOMAIN SingleCharTokens
  /\ c \notin {"!", "=", "<", ">", "/", " ", "\r", "\t", "\n", "\""}
  /\ ~isDigit(c)
  /\ ~isAlpha(c)

NoEof(toks) == \A i \in 1..Len(toks) : toks[i].type # "eof"

\* C11: scanTokens terminates without throwing -- every pass of its loop
\* moves current forward and current never passes the end of the source --
\* and the list it returns ends with an eof token and holds no other; a
\* character of no token is reported as "Unexpected character." at the
\* current line, adds no token, and the scan goes on with the character
\* after it.
ScanTokensTotal ==
  /\ [](scanner.current <= Len(source))
  /\ [](pc = "scan" => NoEof(tokens))
  /\ [](pc # "scan" =>
          /\ scanner.current = Len(source)
          /\ tokens # <<>>
          /\ tokens[Len(tokens)].type = "eof"
          /\ NoEof(SubSeq(tokens, 1, Len(tokens) - 1)))
  /\ [][pc = "scan" =>
          \/ pc' = "scan" /\ scanner'.current > scanner.current
          \/ pc' # "scan" /\ scanner.current = Len(source)]_vars
  /\ [][pc = "scan" /\ ~scanIsAtEnd(source, scanner)
          /\ Unexpected(charAt(source, scanner.current)) =>
          /\ tokens' = tokens
          /\ stderr' = Append(stderr, errorLine(LineOf(source, scanner.current),
                                                "Unexpected character."))
          /\ hadError'
          /\ pc' = "scan"
          /\ scanner'.current = scanner.current + 1]_vars

\* C11 witness: the scan of a source with an unexpected character in front
\* of a letter has ended: one report, and the letter is a token before eof.
ScanTokensTotalWitness ==
  /\ pc # "scan"
  /\ Len(source) >= 2
  /\ source[1] = "@"
  /\ source[2] = "a"
  /\ Len(stderr) = 1
  /\ stderr[1] = errorLine(1, "Unexpected character.")
  /\ Len(tokens) = 2
  /\ tokens[1].type = "identifier"
  /\ tokens[2].type = "eof"

\* C12: the lexeme of every token the scanner adds, other than eof, is the
\* text of the source between start and current, and that text lies on the
\* line the token records: its first character is on that line, also when
\* the token is a string with newlines in it.
LexemesLieOnTheirLine ==
  [][pc = "scan" /\ pc' = "scan" /\ Len(tokens') > Len(tokens) =>
       /\ tokens'[Len(tokens')].lexeme =
            substring(source, scanner.current, scanner'.current)
       /\ tokens'[Len(tokens')].line = LineOf(source, scanner.current)]_vars

\* C13: a string that is not closed before the end of the source is
\* reported as "Unterminated string." with the line on which its opening
\* quote is, and adds no token.
Unclosed(src, from) == \A i \in (from + 1)..(Len(src) - 1) : charAt(src, i) # "\""

UnterminatedStringAtItsFirstLine ==
  [][pc = "scan" /\ ~scanIsAtEnd(source, scanner)
       /\ charAt(source, scanner.current) = "\""
       /\ Unclosed(source, scanner.current) =>
       /\ tokens' = tokens
       /\ stderr' = Append(stderr, errorLine(LineOf(source, scanner.current),
                                             "Unterminated string."))]_vars

(***************************************************************************)
(* Properties of the evaluation order                                      *)
(***************************************************************************)
\* The value of the global variable of a name, once defined
Global(name) == interp.envs[1].values[name]

\* What the operand named by a letter prints
Printed(letter) ==
  CASE letter = "l" -> "L" [] letter = "s" -> "S" [] letter = "r" -> "R"
    [] OTHER -> "E"

\* The report of the RuntimeError an operator raises for operands of the
\* wrong types
OperandsReport(operator) ==
  [kind |-> "runtime", line |-> 6, where |-> "",
   message |-> IF operator = <<"+">>
               THEN "Operands must be two numbers or two strings."
               ELSE "Operands must be numbers."]

\* The report of the RuntimeError raised inside e()
OwnReport ==
  [kind |-> "runtime", line |-> 5, where |-> "",
   message |-> "Operand must be a number."]

\* C14: a binary expression evaluates its left operand, then its right
\* operand, and checks the operand types after both.  With a left operand of
\* the wrong type the right operand has still printed and assigned before
\* the operator's error is raised, and a runtime error of the right operand
\* is the one reported; an error of the left operand is raised before the
\* right operand is touched.
OperandsBeforeTypeCheck ==
  \A left \in LeftOperands, operator \in TypeCheckedOperators,
     right \in RightOperands :
    source = ProgOperands(left, operator, right) =>
      /\ exitCode # -1 => hadRuntimeError
      /\ hadRuntimeError =>
           /\ Global("a") = Num(1)
           /\ stdout = IF left = "e" THEN <<"E">>
                       ELSE <<Printed(left), Printed(right)>>
           /\ stderr = IF left = "e" \/ right = "e" THEN <<OwnReport>>
                       ELSE <<OperandsReport(operator)>>

\* C14 witness: nil < r() has printed L and R, assigned a, and raised
\* "Operands must be numbers."
OperandsBeforeTypeCheckWitness ==
  /\ source = ProgOperands("l", <<"<">>, "r")
  /\ pc = "exited"
  /\ stdout = <<"L", "R">>
  /\ Global("a") = Num(1)
  /\ stderr = <<OperandsReport(<<"<">>)>>

\* What the callee or argument named by a letter prints
PrintedBy(letter) ==
  CASE letter = "n" -> "N" [] letter = "g" -> "G" [] letter = "k" -> "K"
    [] letter = "p" -> "P" [] letter = "q" -> "Q" [] OTHER -> "E"

\* The position of the first argument that raises an error, 0 without one
RECURSIVE FirstError(_, _)
FirstError(letters, i) ==
  IF i > Len(letters) THEN 0
  ELSE IF letters[i] = "e" THEN i
  ELSE FirstError(letters, i + 1)

\* The arguments that get evaluated: all of them, or those up to the first
\* that raises an error
Evaluated(letters) ==
  IF FirstError(letters, 1) = 0 THEN letters
  ELSE SubSeq(letters, 1, FirstError(letters, 1))

PrintedByAll(letters) == [i \in 1..Len(letters) |-> PrintedBy(letters[i])]

CallReport(message) ==
  [kind |-> "runtime", line |-> 10, where |-> "", message |-> message]

ArgumentReport ==
  [kind |-> "runtime", line |-> 9, where |-> "",
   message |-> "Operand must be a number."]

\* The declared arity of what the callee g or k returns, and what its body
\* prints when entered
ArityOf(callee) == IF callee = "g" THEN 2 ELSE 1
BodyPrints(callee) == IF callee = "g" THEN "F" ELSE "I"

\* C15: a call evaluates its callee, then its arguments from left to right,
\* then checks that the callee is callable, then that the number of
\* arguments is its arity, and then invokes it.  The arguments have printed
\* and assigned, in order, when "Can only call functions and classes." or
\* "Expected N arguments but got M." is reported, the body of the callee has
\* printed nothing on an arity mismatch, and an error of an argument is
\* reported before either check.
CallOrder ==
  \A callee \in Callees, letters \in ArgumentLists :
    source = ProgCalls(callee, letters) /\ exitCode # -1 =>
      /\ Global("a") = Num(Len(Evaluated(letters)))
      /\ IF FirstError(letters, 1) # 0
         THEN /\ stdout = <<PrintedBy(callee)>> \o PrintedByAll(Evaluated(letters))
              /\ stderr = <<ArgumentReport>>
         ELSE IF callee = "n"
         THEN /\ stdout = <<"N">> \o PrintedByAll(letters)
              /\ stderr = <<CallReport("Can only call functions and classes.")>>
         ELSE IF Len(letters) # ArityOf(callee)
         THEN /\ stdout = <<PrintedBy(callee)>> \o PrintedByAll(letters)
              /\ stderr = <<CallReport("Expected " \o ToString(ArityOf(callee))
                                         \o " arguments but got "
                                         \o ToString(Len(letters)) \o ".")>>
         ELSE /\ stdout = <<PrintedBy(callee)>> \o PrintedByAll(letters)
                            \o <<BodyPrints(callee)>>
              /\ stderr = <<>>

\* C15 witness: g()(p(), q(), p()) has printed G, P, Q, P and not F, and
\* reported "Expected 2 arguments but got 3."
CallOrderWitness ==
  /\ source = ProgCalls("g", <<"p", "q", "p">>)
  /\ pc = "exited"
  /\ stdout = <<"G", "P", "Q", "P">>
  /\ Global("a") = Num(3)
  /\ stderr = <<CallReport("Expected 2 arguments but got 3.")>>

(***************************************************************************)
(* Properties of classes                                                   *)
(***************************************************************************)
\* C16: LoxInstance.get returns the field of the name when the instance has
\* one, also when the class or a superclass has a method of that name;
\* without a field, the first method of that name on the way from the class
\* of the instance up its superclasses, bound to the instance in a function
\* object that no other access returned; without either, the runtime error
\* "Undefined property 'name'.".
GetFieldsThenMethods ==
  /\ \A g \in Events("get") :
       /\ interp.funs[Log[g].z].declaration =
            interp.funs[findMethod(interp, interp.instances[Log[g].x].klass,
                                   Log[g].how)].declaration
       /\ interp.envs[interp.funs[Log[g].z].closure].values["this"] =
            Ref("instance", Log[g].x)
       /\ \A h \in Events("get") : h # g => Log[h].z # Log[g].z
  /\ (source = ProgGet /\ pc = "exited") =>
       /\ stdout = <<"Bm", "An", "false", "fn", "fm">>
       /\ stderr = <<[kind |-> "runtime", line |-> 9, where |-> "",
                      message |-> "Undefined property 'x'."]>>

\* C16 witness: ProgGet has run: b.m gave the method of B and b.n the one
\* inherited from A, two accesses of b.m gave two function objects, the
\* fields n and m set afterwards were returned in place of the methods, and
\* b.x was reported.
GetFieldsThenMethodsWitness ==
  /\ source = ProgGet
  /\ pc = "exited"
  /\ Cardinality(Events("get")) = 4
  /\ stdout = <<"Bm", "An", "false", "fn", "fm">>
  /\ hadRuntimeError

\* C17: super.m in a method of B (class B < A) is the method m found from A
\* upwards, whatever the class of the receiver, bound to the current this:
\* on an instance of C < B, whose class and whose superclass B both define
\* m and w, super.m() in B runs the m of A with this the instance, super.w()
\* runs the w of Z, the first above A, and super.x, which only C defines,
\* raises "Undefined property 'x'.".
SuperStartsAboveItsClass ==
  (source = ProgSuperChain /\ pc = "exited") =>
    /\ stdout = <<"A.m", "true", "Z.w">>
    /\ stderr = <<[kind |-> "runtime", line |-> 4, where |-> "",
                   message |-> "Undefined property 'x'."]>>

SuperStartsAboveItsClassWitness ==
  /\ source = ProgSuperChain
  /\ pc = "exited"
  /\ stdout = <<"A.m", "true", "Z.w">>
  /\ hadRuntimeError
  /\ \E t \in Events("this") : Log[t].v.t = "instance"

(***************************************************************************)
(* Properties of the resolver                                              *)
(***************************************************************************)
\* The reports a return statement calls for, given the kind of the function
\* whose body it is in ("none" outside every function body)
ReturnReport(stmt, kind) ==
  (IF kind = "none"
   THEN <<errorToken(stmt.keyword, "Can't return from top-level code.")>>
   ELSE <<>>)
  \o (IF stmt.value.type # "null" /\ kind = "initializer"
      THEN <<errorToken(stmt.keyword,
                        "Can't return a value from an initializer.")>>
      ELSE <<>>)

\* The reports the return statements of a statement call for, in source
\* order: a function declaration makes its body a "function", a class makes
\* the body of a method named init an "initializer" and of any other a
\* "method".
RECURSIVE ReturnReportsIn(_, _), ReturnReportsOf(_, _), ReturnReportsOfMethods(_)
ReturnReportsIn(stmt, kind) ==
  CASE stmt.type = "return" -> ReturnReport(stmt, kind)
    [] stmt.type = "block" -> ReturnReportsOf(stmt.statements, kind)
    [] stmt.type = "if" ->
         ReturnReportsIn(stmt.thenBranch, kind) \o
           (IF stmt.elseBranch.type = "null" THEN <<>>
            ELSE ReturnReportsIn(stmt.elseBranch, kind))
    [] stmt.type = "while" -> ReturnReportsIn(stmt.body, kind)
    [] stmt.type = "function" -> ReturnReportsOf(stmt.body, "function")
    [] stmt.type = "class" -> ReturnReportsOfMethods(stmt.methods)
    [] OTHER -> <<>>
ReturnReportsOf(stmts, kind) ==
  IF stmts = <<>> THEN <<>>
  ELSE ReturnReportsIn(Head(stmts), kind) \o ReturnReportsOf(Tail(stmts), kind)
ReturnReportsOfMethods(methods) ==
  IF methods = <<>> THEN <<>>
  ELSE ReturnReportsOf(Head(methods).body,
                       IF Head(methods).name.lexeme = "init"
                       THEN "initializer" ELSE "method")
         \o ReturnReportsOfMethods(Tail(methods))

IsReturnReport(report) ==
  report.message \in {"Can't return from top-level code.",
                      "Can't return a value from an initializer."}

\* C18: the resolver reports "Can't return from top-level code." for every
\* return statement outside every function body and "Can't return a value
\* from an initializer." for every return with a value in the body of a
\* method named init, and no other return: none for a bare return in init,
\* none inside a function nested in init; the kind of function in force is
\* the enclosing one again after a function or class declaration, so that
\* a top-level return after it is reported.
ReturnsReported ==
  /\ resolver.currentFunction = "none"
  /\ resolver.next > 1 =>
       SelectSeq(stderr, IsReturnReport) =
         ReturnReportsOf(SubSeq(statements, 1, resolver.next - 1), "none")

\* C18 witness: ProgReturns is resolved: eight returns reported -- seven
\* outside a function, before and after the declarations, and one with a
\* value in init -- of the fourteen it has.
ReturnsReportedWitness ==
  /\ source = ProgReturns
  /\ pc = "returned"
  /\ resolver.next = Len(statements) + 1
  /\ Len(statements) = 10
  /\ Len(SelectSeq(stderr, IsReturnReport)) = 8
  /\ stderr[6].line = 6
  /\ stderr[7] = [kind |-> "compile", line |-> 8, where |-> " at 'return'",
                  message |-> "Can't return a value from an initializer."]
  /\ stderr[8].line = 10

RedeclarationReport(name) ==
  errorToken(name, "Already a variable with this name in this scope.")

\* The names a statement declares in the scope it stands in
NamesDeclaredBy(stmt) ==
  IF stmt.type \in {"var", "function", "class"} THEN {stmt.name.lexeme} ELSE {}

\* The report for a name declared where the names of the set are declared
\* already; no scope is open at global level
Redeclared(name, declared, global) ==
  IF ~global /\ name.lexeme \in declared THEN <<RedeclarationReport(name)>>
  ELSE <<>>

\* The reports the declarations of a statement call for, in source order:
\* a block opens a scope, a function opens one for its parameters and its
\* body together, and a method is declared in no scope.
RECURSIVE RedeclarationsIn(_, _, _), RedeclarationsOf(_, _, _),
          RedeclarationsOfParams(_, _), RedeclarationsOfMethods(_)
RedeclarationsOfFunction(fn) ==
  RedeclarationsOfParams(fn.params, {}) \o
    RedeclarationsOf(fn.body,
                     {fn.params[i].lexeme : i \in 1..Len(fn.params)}, FALSE)
RedeclarationsIn(stmt, declared, global) ==
  CASE stmt.type = "var" -> Redeclared(stmt.name, declared, global)
    [] stmt.type = "function" ->
         Redeclared(stmt.name, declared, global)
           \o RedeclarationsOfFunction(stmt)
    [] stmt.type = "class" ->
         Redeclared(stmt.name, declared, global)
           \o RedeclarationsOfMethods(stmt.methods)
    [] stmt.type = "block" -> RedeclarationsOf(stmt.statements, {}, FALSE)
    [] stmt.type = "if" ->
         RedeclarationsIn(stmt.thenBranch, declared, global) \o
           (IF stmt.elseBranch.type = "null" THEN <<>>
            ELSE RedeclarationsIn(stmt.elseBranch, declared, global))
    [] stmt.type = "while" -> RedeclarationsIn(stmt.body, declared, global)
    [] OTHER -> <<>>
RedeclarationsOf(stmts, declared, global) ==
  IF stmts = <<>> THEN <<>>
  ELSE RedeclarationsIn(Head(stmts), declared, global) \o
         RedeclarationsOf(Tail(stmts),
                          declared \cup NamesDeclaredBy(Head(stmts)), global)
RedeclarationsOfParams(params, declared) ==
  IF params = <<>> THEN <<>>
  ELSE Redeclared(Head(params), declared, FALSE) \o
         RedeclarationsOfParams(Tail(params),
                                declared \cup {Head(params).lexeme})
RedeclarationsOfMethods(methods) ==
  IF methods = <<>> THEN <<>>
  ELSE RedeclarationsOfFunction(Head(methods))
         \o RedeclarationsOfMethods(Tail(methods))

IsRedeclarationReport(report) ==
  report.message = "Already a variable with this name in this scope."

\* C19: the resolver reports "Already a variable with this name in this
\* scope." for every variable, function, class or parameter whose name is
\* declared already in the scope it is declared in, when that scope is a
\* block or a function, and for no other declaration: none at global
\* level, none for a name that is only declared in an enclosing scope.
RedeclarationsReported ==
  /\ resolver.scopes = <<>>
  /\ resolver.next > 1 =>
       SelectSeq(stderr, IsRedeclarationReport) =
         RedeclarationsOf(SubSeq(statements, 1, resolver.next - 1), {}, TRUE)

\* C19 witness: ProgRedeclarations is resolved: seven of its declarations
\* are reported, none of the four of a at global level and none of the
\* shadowing ones.
RedeclarationsReportedWitness ==
  /\ source = ProgRedeclarations
  /\ pc = "returned"
  /\ resolver.next = Len(statements) + 1
  /\ Len(stderr) = 7
  /\ \A i \in 1..7 : IsRedeclarationReport(stderr[i])
  /\ stderr[1] = [kind |-> "compile", line |-> 2, where |-> " at 'b'",
                  message |-> "Already a variable with this name in this scope."]
  /\ stderr[4].where = " at 'p'" /\ stderr[5].where = " at 'p'"
  /\ stderr[6].where = " at 'x'"
  /\ stderr[7].where = " at 'z'"

(***************************************************************************)
(* Properties of the prompt                                                *)
(***************************************************************************)
\* The lines the handler was called with so far
LinesRead == SubSeq(stdin.lines, 1, stdin.read)

Count(seq, x) == Cardinality({i \in 1..Len(seq) : seq[i] = x})

CompileErrorLines == {LineScanError, LineParseError, LineResolveError}

\* C20: in the prompt hadError is false again after every line, so that
\* every error-free line is scanned, parsed, resolved and executed whatever
\* lines came before it -- each "print 1;" read has printed 1, each line with
\* a scanner, parser or resolver error has been reported once and each
\* failing line once at runtime -- and the empty line, and only it, closes
\* the prompt: no line after it is read.
PromptResetsErrorFlag ==
  /\ [](pc = "prompt" => ~hadError)
  /\ [](pc = "returned" /\ source = LineGood =>
          /\ Len(statements) = 1
          /\ resolver.next = 2
          /\ interp.next = 2
          /\ stdout[Len(stdout)] = "1")
  /\ [](pc \in {"prompt", "closed"} =>
          /\ Count(stdout, "1") = Count(LinesRead, LineGood)
          /\ Len(Reports("compile")) =
               Cardinality({i \in 1..stdin.read :
                              stdin.lines[i] \in CompileErrorLines})
          /\ Len(Reports("runtime")) = Count(LinesRead, LineRuntimeError)
          /\ Count(stdout, PromptText) = 1 + stdin.read - Count(LinesRead, <<>>))
  /\ [](pc = "closed" <=> Count(LinesRead, <<>>) = 1)
  /\ [](Count(LinesRead, <<>>) = 1 => stdin.lines[stdin.read] = <<>>)
  /\ [][pc # "closed"]_vars

\* C20 witness: a line with a parser error, then "print 1;", then the empty
\* line: one report, 1 printed after it, and the prompt closed.
PromptResetsErrorFlagWitness ==
  /\ stdin = [lines |-> <<LineParseError, LineGood, <<>>>>, read |-> 3]
  /\ pc = "closed"
  /\ stdout = <<PromptText, PromptText, "1", PromptText>>
  /\ Len(stderr) = 1
  /\ ~hadError

(***************************************************************************)
(* Properties of a session at the prompt                                   *)
(***************************************************************************)
\* A line read before the one run(line) is now executing
ReadEarlier(line) == \E k \in 1..(stdin.read - 1) : stdin.lines[k] = line

\* C21: the global environment lives as long as the process -- while a
\* later call of run() executes its statements, the variable, the function
\* and the class defined by an earlier line of the prompt are still defined
\* in the global frame, the variable with its value.
GlobalsOutliveRun ==
  pc = "interpret" =>
    /\ ReadEarlier(LineDefineVar) => mapGet(interp.envs[1].values, "a") = Num(1)
    /\ ReadEarlier(LineDefineFun) => "f" \in DOMAIN interp.envs[1].values
    /\ ReadEarlier(LineDefineClass) => "K" \in DOMAIN interp.envs[1].values

(***************************************************************************)
(* Properties of the resolver's side-table                                 *)
(***************************************************************************)
\* The scopes open at a point of the program, outermost first, each the set
\* of the names declared in it so far, and the same with one more name in
\* the innermost; no scope is open at global level.
Declaring(open, name) ==
  IF open = <<>> THEN open
  ELSE [open EXCEPT ![Len(open)] = @ \cup {name}]

\* The entry of an expression that uses a name: the number of scopes
\* between the innermost open scope and the innermost one that has the
\* name; none when no open scope has it.
EntryOf(id, name, open) ==
  LET holders == {i \in 1..Len(open) : name \in open[i]} IN
    IF holders = {} THEN EmptyMap
    ELSE (id :> Cardinality({j \in 1..Len(open) :
                               \A i \in holders : j > i}))

\* The entries of the expressions of an expression, of a statement and of
\* a statement list standing where the scopes open are given
RECURSIVE EntriesInExpr(_, _), EntriesInExprs(_, _), EntriesIn(_, _),
          EntriesOf(_, _), EntriesOfMethods(_, _)
EntriesInExpr(expr, open) ==
  CASE expr.type = "variable" -> EntryOf(expr.id, expr.name.lexeme, open)
    [] expr.type = "assignment" ->
         EntryOf(expr.id, expr.name.lexeme, open)
           @@ EntriesInExpr(expr.value, open)
    [] expr.type = "this" -> EntryOf(expr.id, "this", open)
    [] expr.type = "super" -> EntryOf(expr.id, "super", open)
    [] expr.type \in {"binary", "logical"} ->
         EntriesInExpr(expr.left, open) @@ EntriesInExpr(expr.right, open)
    [] expr.type = "call" ->
         EntriesInExpr(expr.callee, open) @@ EntriesInExprs(expr.arguments, open)
    [] expr.type = "get" -> EntriesInExpr(expr.object, open)
    [] expr.type = "set" ->
         EntriesInExpr(expr.object, open) @@ EntriesInExpr(expr.value, open)
    [] expr.type = "grouping" -> EntriesInExpr(expr.expression, open)
    [] expr.type = "unary" -> EntriesInExpr(expr.right, open)
    [] OTHER -> EmptyMap
EntriesInExprs(exprs, open) ==
  IF exprs = <<>> THEN EmptyMap
  ELSE EntriesInExpr(Head(exprs), open) @@ EntriesInExprs(Tail(exprs), open)
\* The scope of a function holds its parameters before its body starts
EntriesInFunction(fn, open) ==
  EntriesOf(fn.body,
            Append(open, {fn.params[i].lexeme : i \in 1..Len(fn.params)}))
EntriesIn(stmt, open) ==
  CASE stmt.type = "block" -> EntriesOf(stmt.statements, Append(open, {}))
    [] stmt.type = "var" ->
         IF stmt.initializer.type = "null" THEN EmptyMap
         ELSE EntriesInExpr(stmt.initializer, Declaring(open, stmt.name.lexeme))
    [] stmt.type = "function" ->
         EntriesInFunction(stmt, Declaring(open, stmt.name.lexeme))
    [] stmt.type = "class" ->
         LET named == Declaring(open, stmt.name.lexeme) IN
           IF stmt.superclass.type = "null"
           THEN EntriesOfMethods(stmt.methods, Append(named, {"this"}))
           ELSE EntriesInExpr(stmt.superclass, named)
                  @@ EntriesOfMethods(stmt.methods,
                                      named \o <<{"super"}, {"this"}>>)
    [] stmt.type \in {"expression", "print"} ->
         EntriesInExpr(stmt.expression, open)
    [] stmt.type = "return" ->
         IF stmt.value.type = "null" THEN EmptyMap
         ELSE EntriesInExpr(stmt.value, open)
    [] stmt.type = "if" ->
         EntriesInExpr(stmt.condition, open) @@ EntriesIn(stmt.thenBranch, open)
           @@ (IF stmt.elseBranch.type = "null" THEN EmptyMap
               ELSE EntriesIn(stmt.elseBranch, open))
    [] stmt.type = "while" ->
         EntriesInExpr(stmt.condition, open) @@ EntriesIn(stmt.body, open)
EntriesOf(stmts, open) ==
  IF stmts = <<>> THEN EmptyMap
  ELSE EntriesIn(Head(stmts), open)
         @@ EntriesOf(Tail(stmts),
                      IF Head(stmts).type \in {"var", "function", "class"}
                      THEN Declaring(open, Head(stmts).name.lexeme)
                      ELSE open)
EntriesOfMethods(methods, open) ==
  IF methods = <<>> THEN EmptyMap
  ELSE EntriesInFunction(Head(methods), open)
         @@ EntriesOfMethods(Tail(methods), open)

\* C22: after the resolver has walked the statements, the side-table holds
\* for every variable, assignment, this and super expression whose name is
\* in a scope open at the point of use the number of scopes between the
\* innermost open scope and the innermost scope with the name
\* (scopes.length - 1 - i), and holds no entry for any other expression:
\* the names that are in no scope are global.
SideTableDepths ==
  resolver.next > 1 =>
    interp.locals = EntriesOf(SubSeq(statements, 1, resolver.next - 1), <<>>)


\* C22 witness: ProgScopes is resolved: 14 expressions have an entry --
\* this in a method of a class with a superclass nested in a function three
\* scopes up, super two scopes up, a parameter shadowed by a local of an
\* inner block in the innermost scope, an assignment to a local of the
\* enclosing function two scopes up -- and the uses of the global g none.
SideTableDepthsWitness ==
  /\ source = ProgScopes
  /\ resolver.next > Len(statements)
  /\ Cardinality(DOMAIN interp.locals) = 14
  /\ \E i \in DOMAIN interp.locals :
       tokens[i + 1].type = "this" /\ interp.locals[i] = 3
  /\ \E i \in DOMAIN interp.locals :
       tokens[i + 1].type = "super" /\ interp.locals[i] = 2
  /\ \E i \in DOMAIN interp.locals :
       /\ tokens[i + 1].lexeme = "p" /\ tokens[i + 2].type = "equal"
       /\ interp.locals[i] = 0
  /\ \E i \in DOMAIN interp.locals :
       /\ tokens[i + 1].lexeme = "t" /\ tokens[i + 2].type = "equal"
       /\ interp.locals[i] = 2
  /\ \A i \in DOMAIN interp.locals : tokens[i + 1].lexeme # "g"

(***************************************************************************)
(* Properties of the parser's error recovery                               *)
(***************************************************************************)
\* The tokens a statement starts with
StatementStarts ==
  {"class", "fun", "var", "for", "if", "while", "print", "return"}

\* Where synchronize() may return: at eof, just after a semicolon, or in
\* front of a token a statement starts with
RecoveryPoint(toks, p) ==
  \/ toks[p.current + 1].type = "eof"
  \/ p.current >= 1 /\ toks[p.current].type = "semicolon"
  \/ toks[p.current + 1].type \in StatementStarts

\* C23: when synchronize() returns the parser is at eof, or has just
\* consumed a semicolon, or stands in front of class, fun, var, for, if,
\* while, print or return, and it has consumed at least one token unless
\* the parser was at eof already -- for synchronize() called at any token
\* of the list, and for the call made by the catch of a declaration of
\* parse(), which returns null and adds no statement.
SynchronizeStopsAtRecoveryPoint ==
  /\ [](\A c \in 0..(Len(tokens) - 1) :
          LET p == [parser EXCEPT !.current = c]
              q == synchronize(tokens, p)
          IN /\ RecoveryPoint(tokens, q)
             /\ q.current <= Len(tokens) - 1
             /\ IF tokens[c + 1].type = "eof" THEN q.current = c
                ELSE q.current > c)
  /\ [][pc = "parse" /\ tokens[parser.current + 1].type # "eof"
          /\ statements' = statements =>
          /\ stderr' # stderr
          /\ RecoveryPoint(tokens, parser')
          /\ parser'.current > parser.current]_vars

\* C23 witness: in "= a var ;" the expression statement has failed at "="
\* and synchronize() has returned in front of var, the token before it not
\* a semicolon.
SynchronizeStopsAtRecoveryPointWitness ==
  /\ pc = "parse"
  /\ Len(tokens) = 5
  /\ tokens[1].type = "equal"
  /\ tokens[2].type = "identifier"
  /\ tokens[3].type = "var"
  /\ parser.current = 2
  /\ statements = <<>>
  /\ Len(stderr) = 1

(***************************************************************************)
(* Properties of the parser's assignments                                  *)
(***************************************************************************)
\* The expression a left-hand side of LeftSides is parsed to, and what it
\* becomes in front of "="
ShapeOf(left) ==
  CASE left = <<"identifier">> -> "variable"
    [] Len(left) >= 3 /\ left[Len(left) - 1] = "dot" -> "get"
    [] left[Len(left)] = "right_paren" /\ left[1] = "identifier" -> "call"
    [] left[1] = "left_paren" -> "grouping"
    [] left[1] = "minus" -> "unary"
    [] left[1] = "number" -> "literal"
    [] left[1] = "this" -> "this"
    [] OTHER -> "binary"

AssignedShapeOf(left) ==
  CASE ShapeOf(left) = "variable" -> "assignment"
    [] ShapeOf(left) = "get" -> "set"
    [] OTHER -> ShapeOf(left)

IsTarget(left) == ShapeOf(left) \in {"variable", "get"}

InvalidTarget == errorToken(TokenOf("equal"), "Invalid assignment target.")

ParsedToEof == tokens # <<>> /\ tokens[parser.current + 1].type = "eof"

\* The print statement that follows the sample assignments, its variable
\* being token number id of the list, counted from 0
PrintAfter(id) ==
  [type |-> "print",
   expression |-> [type |-> "variable", name |-> TokenOf("identifier"),
                   id |-> id]]

\* C24: in "L = a = 1;" a variable L becomes an assignment and a property
\* L a set, whose value is the assignment a = 1 (right-associative); for
\* every other L "Invalid assignment target." is reported at "=", once, the
\* statement is the expression statement of L alone -- no ParseError is
\* thrown -- and the print statement after it is parsed; the same inside
\* the branches of an if in a block; and in every token list a pass of
\* parse() that reports nothing else adds its statement.
AssignmentReinterpreted ==
  /\ [](\A left \in LeftSides :
          ParsedToEof /\ tokens = Tokenize(SampleAssignment(left)) =>
            /\ Len(statements) = 2
            /\ statements[1].type = "expression"
            /\ statements[1].expression.type = AssignedShapeOf(left)
            /\ statements[2] = PrintAfter(Len(left) + 6)
            /\ IF IsTarget(left)
               THEN /\ stderr = <<>>
                    /\ statements[1].expression.name = TokenOf("identifier")
                    /\ statements[1].expression.value =
                         [type |-> "assignment", name |-> TokenOf("identifier"),
                          value |-> [type |-> "literal", value |-> Num(1)],
                          id |-> Len(left) + 1]
                    /\ ShapeOf(left) = "get" =>
                         statements[1].expression.object.type =
                           (IF Len(left) = 3 THEN "variable" ELSE "call")
               ELSE /\ stderr = <<InvalidTarget>>
                    /\ hadError
                    /\ statements[1] =
                         declaration(Tokenize(left \o <<"semicolon">>),
                                     ParserInit).node)
  /\ [](\A left \in LeftSides :
          ParsedToEof /\ tokens = Tokenize(SampleNestedAssignment(left)) =>
            /\ Len(statements) = 2
            /\ statements[1].type = "block"
            /\ Len(statements[1].statements) = 1
            /\ statements[1].statements[1].type = "if"
            /\ \A branch \in {statements[1].statements[1].thenBranch,
                              statements[1].statements[1].elseBranch} :
                 /\ branch.type = "expression"
                 /\ branch.expression.type = AssignedShapeOf(left)
            /\ statements[2] = PrintAfter(2 * Len(left) + 14)
            /\ stderr = IF IsTarget(left) THEN <<>>
                        ELSE <<InvalidTarget, InvalidTarget>>)
  /\ [][pc = "parse" /\ stderr' # stderr
          /\ (\A k \in (Len(stderr) + 1)..Len(stderr') :
                stderr'[k].message = "Invalid assignment target.") =>
          /\ Len(statements') = Len(statements) + 1
          /\ \A k \in (Len(stderr) + 1)..Len(stderr') :
               stderr'[k].where = " at '='"]_vars

\* C24 witness: "a + a = a = 1; print a;" is parsed to its end: one report,
\* the statement a + a, and the print statement.
AssignmentReinterpretedWitness ==
  /\ ParsedToEof
  /\ tokens = Tokenize(SampleAssignment(<<"identifier", "plus", "identifier">>))
  /\ stderr = <<InvalidTarget>>
  /\ Len(statements) = 2
  /\ statements[1].expression.type = "binary"
  /\ statements[2].type = "print"

(***************************************************************************)
(* Properties of the for statement                                         *)
(***************************************************************************)
\* The statement parsed from the for loop of ProgLoop: the first statement
\* of the body of f, the fourth declaration of the program
ParsedLoop == statements[4].body[1]

\* The body of the loop as written: a block of two prints, an if and, when
\* the loop has no increment clause, the step
IsWrittenBody(stmt, increment) ==
  /\ stmt.type = "block"
  /\ Len(stmt.statements) = (IF increment = <<>> THEN 4 ELSE 3)
  /\ stmt.statements[1].type = "print"
  /\ stmt.statements[2].type = "print"
  /\ stmt.statements[3].type = "if"

\* While(condition or true, body or Block[body, ExpressionStmt(increment)])
IsDesugaredLoop(stmt, condition, increment) ==
  /\ stmt.type = "while"
  /\ IF condition = <<>>
     THEN stmt.condition.type = "literal" /\ stmt.condition.value = Bool(TRUE)
     ELSE stmt.condition.type = "binary" /\ stmt.condition.operator.type = "less"
  /\ IF increment = <<>> THEN IsWrittenBody(stmt.body, increment)
     ELSE /\ stmt.body.type = "block"
          /\ Len(stmt.body.statements) = 2
          /\ IsWrittenBody(stmt.body.statements[1], increment)
          /\ stmt.body.statements[2].type = "expression"
          /\ stmt.body.statements[2].expression.type = "call"

VarInitializer == <<"v", "a", "r", " ", "i", " ", "=", " ", "7">>
AssignInitializer == <<"i", " ", "=", " ", "7">>

\* What a pass of the body prints, n and the i of the loop, and the
\* increment clause after it
PassPrints(n, initializer, increment) ==
  <<n, IF initializer = <<>> THEN "0" ELSE "7">>
    \o (IF increment = <<>> THEN <<>> ELSE <<"t">>)

\* What the program prints: with the condition n < 1 one pass and its
\* increment, then the i seen after the loop in f -- the global, unless the
\* initializer assigned to it -- and without a condition passes until the
\* body returns in the third, at n = 2, before the increment; last the
\* global i.
LoopPrints(initializer, condition, increment) ==
  (IF condition # <<>>
   THEN PassPrints("0", initializer, increment)
          \o <<IF initializer = AssignInitializer THEN "7" ELSE "0">>
   ELSE PassPrints("0", initializer, increment)
          \o PassPrints("1", initializer, increment)
          \o PassPrints("2", initializer, <<>>))
    \o <<IF initializer = AssignInitializer THEN "7" ELSE "0">>

\* C25: for (init; cond; inc) body is parsed to
\* Block[init, While(cond, Block[body, ExpressionStmt(inc)])], the outer
\* block only with an initializer, the inner only with an increment, and a
\* missing condition the literal true; when run, the initializer runs once,
\* the increment after every pass of the body that ends normally, and a
\* variable declared by the initializer is the loop's own: the body sees
\* it, and after the loop the name is the global again, which has kept its
\* value, while an initializer that assigns changes the global.
ForDesugared ==
  \A initializer \in ForInitializers, condition \in ForConditions,
     increment \in ForIncrements :
    source = ProgLoop(initializer, condition, increment) =>
      /\ Len(statements) >= 4 =>
           /\ statements[4].type = "function"
           /\ Len(statements[4].body) = 2
           /\ IF initializer = <<>>
              THEN IsDesugaredLoop(ParsedLoop, condition, increment)
              ELSE /\ ParsedLoop.type = "block"
                   /\ Len(ParsedLoop.statements) = 2
                   /\ ParsedLoop.statements[1].type =
                        (IF initializer = VarInitializer THEN "var"
                         ELSE "expression")
                   /\ IsDesugaredLoop(ParsedLoop.statements[2], condition,
                                      increment)
      /\ stderr = <<>>
      /\ pc = "exited" =>
           /\ stdout = LoopPrints(initializer, condition, increment)
           /\ exitCode = 0

\* C25 witness: the loop with all three clauses has run: the one pass has
\* printed 0, the loop's i and t, then f the global i, and the program the
\* global i.
ForDesugaredWitness ==
  /\ source = ProgLoop(VarInitializer, <<"n", " ", "<", " ", "1">>,
                       <<"t", "(", ")">>)
  /\ pc = "exited"
  /\ stdout = <<"0", "7", "t", "0", "0">>
  /\ ParsedLoop.type = "block"
  /\ ParsedLoop.statements[2].body.statements[2].expression.type = "call"

(***************************************************************************)
(* Properties of the frames of calls                                       *)
(***************************************************************************)
\* The frames that were current when a call of a function was made: the
\* caller's frame and the frames around it, up to the globals
RECURSIVE FramesAround(_)
FramesAround(e) ==
  IF e = 0 THEN {} ELSE {e} \cup FramesAround(interp.envs[e].enclosing)

\* C26: every call of a function runs in a frame made for it: the frame is
\* not one that existed before -- not the caller's, not the closure, not
\* the frame of another call or block -- its parent is the function's
\* closure, and the caller's frame is around it only when it is around the
\* closure; it holds every parameter.  So each activation of a recursive
\* function keeps its own parameter and local, a second call starts from
\* its own arguments, the arguments go to the parameters in order, and a
\* local of the caller is undefined in the callee.
CallsRunInTheirOwnFrame ==
  /\ \A k \in Events("frame") :
       LET fn == interp.funs[Log[k].z] IN
         /\ Log[k].x \notin FramesAround(Log[k].y)
         /\ Log[k].x \notin FramesAround(fn.closure)
         /\ \A j \in Events("block") : j < k => Log[j].z # Log[k].x
         /\ \A j \in Events("frame") : j # k => Log[j].x # Log[k].x
         /\ interp.envs[Log[k].x].enclosing = fn.closure
         /\ FramesAround(Log[k].x) \cap FramesAround(Log[k].y)
              = FramesAround(fn.closure) \cap FramesAround(Log[k].y)
         /\ \A i \in 1..Len(fn.declaration.params) :
              fn.declaration.params[i].lexeme
                \in DOMAIN interp.envs[Log[k].x].values
  /\ source = ProgFrames =>
       /\ IsPrefix(stdout, <<"0", "0", "1", "10", "2", "20", "1", "2", "3", "4">>)
       /\ pc = "exited" =>
            /\ Len(stdout) = 10
            /\ stderr = <<runtimeError([line |-> 5,
                                        message |-> "Undefined variable 'y'."])>>
            /\ exitCode = 70


\* C26 witness: ProgFrames has run to its runtime error: r was called from
\* its own body, so that a frame of r was made while another was current,
\* with the same closure, and q from a block of c.
CallsRunInTheirOwnFrameWitness ==
  /\ source = ProgFrames
  /\ pc = "exited"
  /\ exitCode = 70
  /\ Cardinality(Events("frame")) = 7
  /\ \E k \in Events("frame") :
       /\ Log[k].y # interp.funs[Log[k].z].closure
       /\ \E j \in Events("frame") :
            /\ Log[j].x = Log[k].y
            /\ Log[j].z = Log[k].z
            /\ interp.envs[Log[j].x].values["n"] # interp.envs[Log[k].x].values["n"]

(***************************************************************************)
(* Properties of the resolved lookups                                      *)
(***************************************************************************)
\* The frame a number of hops up from a frame; 0 when the chain of
\* enclosing frames ends before it
RECURSIVE Hops(_, _)
Hops(e, d) ==
  IF e = 0 \/ d = 0 THEN e ELSE Hops(interp.envs[e].enclosing, d - 1)

Lookups == Events("getAt") \cup Events("assignAt")

FunctionTypes == {"none", "function", "method", "initializer"}
ClassTypes == {"none", "class", "subclass"}

\* A resolver in the middle of a walk: a number of scopes open, in a
\* function and a class of the given kinds
ResolverWithin(open, function, class) ==
  [ResolverInit EXCEPT !.scopes = [i \in 1..open |-> EmptyMap],
                       !.currentFunction = function,
                       !.currentClass = class]

ResolverContexts ==
  {ResolverWithin(open, function, class) :
     open \in 0..2, function \in FunctionTypes, class \in ClassTypes}

SameContext(after, before) ==
  /\ Len(after.scopes) = Len(before.scopes)
  /\ after.currentFunction = before.currentFunction
  /\ after.currentClass = before.currentClass

\* C28: when resolveStmts has returned, with or without errors reported,
\* the scope stack is empty and currentFunction and currentClass are
\* "none", and so they are between any two top-level statements; more, the
\* walk of any statement of the program, started with any number of scopes
\* open and inside any kind of function and class, ends with as many scopes
\* open and the same two kinds: every beginScope has its endScope and every
\* change of currentFunction and currentClass is undone.
ResolverLeavesNoTrace ==
  /\ resolver.scopes = <<>>
  /\ resolver.currentFunction = "none"
  /\ resolver.currentClass = "none"
  /\ pc = "resolve" =>
       \A i \in 1..Len(statements) : \A within \in ResolverContexts :
         SameContext(resolveStmt(within, statements[i]), within)

\* C28 witness: the resolver has walked ProgReturns to its end and has
\* reported eight returns, inside functions, methods and blocks.
ResolverLeavesNoTraceWitness ==
  /\ source = ProgReturns
  /\ pc = "returned"
  /\ resolver.next > Len(statements)
  /\ Len(stderr) = 8
  /\ resolver.scopes = <<>>
  /\ resolver.currentFunction = "none"
  /\ resolver.currentClass = "none"

(***************************************************************************)
(* Properties of property assignment                                       *)
(***************************************************************************)
SetReport(line, message) ==
  [kind |-> "runtime", line |-> line, where |-> "", message |-> message]

\* The fields of the instance k, the first instance made
FieldsOfK == interp.instances[1].fields

\* The fields k has after  print o().x = <value>;  with o returning k
FieldsWritten(value) ==
  IF value = <<"v", "(", ")">>
  THEN ("x" :> Num(2)) @@ ("g" :> Num(1))
  ELSE ("x" :> Num(2)) @@ ("h" :> Num(2)) @@ ("g" :> Num(1))

\* C29: a property assignment evaluates its object and checks that it is an
\* instance before it evaluates the value.  When o() returns nil, a number,
\* a string, a function or a class, at no moment of the run has v printed,
\* incremented n or written a field, and the run ends with "Only instances
\* have fields." at the line of the assignment as its only report; when
\* o() raises an error of its own, that error is the report and v has not
\* run either; when o() returns the instance k, o prints before v, the
\* fields are written and the value assigned is printed.
SetChecksObjectFirst ==
  \A object \in SetObjects, value \in SetValues :
    source = ProgSet(object, value) =>
      /\ object # <<"k">> =>
           /\ \A i \in 1..Len(stdout) : stdout[i] # "v"
           /\ "n" \in DOMAIN interp.envs[1].values => Global("n") = Num(0)
           /\ \A i \in 1..Len(interp.instances) :
                DOMAIN interp.instances[i].fields = {}
      /\ exitCode # -1 =>
           IF object = <<"k">>
           THEN /\ stdout = <<"o", "v", "2">>
                /\ stderr = <<>>
                /\ Global("n") = Num(1)
                /\ FieldsOfK = FieldsWritten(value)
           ELSE /\ stdout = <<"o">>
                /\ Len(interp.instances) = 1
                /\ stderr = IF object = <<"-", "n", "i", "l">>
                            THEN <<SetReport(5, "Operand must be a number.")>>
                            ELSE <<SetReport(6, "Only instances have fields.")>>

\* C29 witness: o().x = k.h = v() with o returning the class K has ended
\* with o printed, v not, n still 0, no field on k and the report
SetChecksObjectFirstWitness ==
  /\ source = ProgSet(<<"K">>,
                      <<"k", ".", "h", " ", "=", " ", "v", "(", ")">>)
  /\ pc = "exited"
  /\ stdout = <<"o">>
  /\ Global("n") = Num(0)
  /\ DOMAIN FieldsOfK = {}
  /\ stderr = <<SetReport(6, "Only instances have fields.")>>

(***************************************************************************)
(* Properties of the parser's cursor                                       *)
(***************************************************************************)
\* The index, counted from 0 as Parser.current is, of the eof token the
\* list ends in
EofIndex(toks) == Len(toks) - 1

\* The parser with its cursor at c
ParserAt(c) == [parser EXCEPT !.current = c]

\* C30: throughout parse() of a token list ending in eof the cursor stays
\* between 0 and the index of eof and never moves back, and no call of
\* previous() is made with current = 0.  advance() at any token before eof
\* moves the cursor by one and at eof leaves it; the previous() it ends
\* with, and those of the loop of synchronize(), read a token of the list
\* from every position parse() can be at: every position but current = 0
\* with eof as the first token, where parse() makes no pass.
CursorWithinTokens ==
  /\ [](/\ tokens[Len(tokens)].type = "eof"
        /\ parser.current \in 0..EofIndex(tokens)
        /\ ~parser.misread
        /\ \A c \in 0..EofIndex(tokens) :
             LET a == advance(tokens, ParserAt(c))
                 s == synchronize(tokens, ParserAt(c))
             IN /\ a.current = IF c = EofIndex(tokens) THEN c ELSE c + 1
                /\ s.current \in c..EofIndex(tokens)
                /\ (c >= 1 \/ ~isAtEnd(tokens, ParserAt(c))) =>
                     ~a.misread /\ ~s.misread)
  /\ [][/\ parser'.current >= parser.current
        /\ parser'.current # parser.current => ~isAtEnd(tokens, parser)]_vars

\* C30 witness: in "} var" the first pass has failed at the first token and
\* the second at eof; synchronize() has run twice, the second time with the
\* cursor at eof, and no previous() has read tokens[-1].
CursorWithinTokensWitness ==
  /\ pc = "parse"
  /\ Len(tokens) = 3
  /\ tokens[1].type = "right_brace"
  /\ tokens[2].type = "var"
  /\ parser.current = EofIndex(tokens)
  /\ ~parser.misread
  /\ statements = <<>>
  /\ Len(stderr) = 2

====
